---- MODULE Spec2Model ----
(***************************************************************************)
(* dns-renew: the renewal orchestrator of src/src/main.rs.                 *)
(*                                                                         *)
(* One invocation of the program (run) walks the directory of name         *)
(* configuration files and calls renew_name on every entry.  renew_name    *)
(* reads the configuration, reads the persisted NameState (read_state),    *)
(* resolves the per-family provider blocks, calls renew for v4 and for v6  *)
(* and finally writes the NameState file.  The process keeps no state      *)
(* between invocations: the only state it owns that survives is the set of *)
(* NameState files.  The configuration files, the clock and the answers of *)
(* the providers are inputs.                                               *)
(*                                                                         *)
(* Besides the program's own state the model keeps a record of the current *)
(* or last cycle (before, read, compared, calls, outcome): what the cycle  *)
(* found and which operations it made, and the entries whose last due      *)
(* cycle failed, until read_state decides on them again (failed_due).  No  *)
(* action reads them.                                                      *)
(*                                                                         *)
(* An Option<T> of the source is a sequence of length at most one:         *)
(* None is << >> and Some(x) is <<x>>.                                     *)
(***************************************************************************)
EXTENDS Integers, Sequences, FiniteSets, TLC

(***************************************************************************)
(* Bounds of the model.                                                    *)
(***************************************************************************)
NumEntries == 2
MaxTime == 1
MaxInterval == 1

Entries == 1..NumEntries
Times == 0..MaxTime
Intervals == 0..MaxInterval

(***************************************************************************)
(* The name each directory entry configures, and the name a NameState file *)
(* may still carry from before the entry was renamed.                      *)
(***************************************************************************)
ConfiguredName(e) == <<"a.example", e>>
OldName(e) == <<"old.example", e>>
NamesOf(e) == {ConfiguredName(e), OldName(e)}
Names == UNION {NamesOf(e) : e \in Entries}

V4Addrs == {"192.0.2.1"}
V6Addrs == {"2001:db8::1"}
IpAddrs == V4Addrs \cup V6Addrs

None == << >>
Some(x) == <<x>>
IsSome(o) == Len(o) = 1
Unwrap(o) == o[1]

(***************************************************************************)
(* Config.update_credentials (config.rs 14-23): the credential table,      *)
(* read-only after load.  CredentialNames are the names a block may give.  *)
(***************************************************************************)
update_credentials == [n \in {"bearer", "basic"} |->
                         IF n = "bearer" THEN "HttpBearerToken" ELSE "HttpBasicAuth"]
CredentialNames == {"bearer", "basic", "unknown"}

(***************************************************************************)
(* UpdateProviderType (config.rs 62-76; the Cloudflare variant as          *)
(* update.rs 356-362 destructures it).  Fields that no decision reads      *)
(* (urls, templates, zone_id) are left out.                                *)
(***************************************************************************)
Methods == {"POST", "PUT", "PATCH", "GET", "post"}
to_uppercase(m) == IF m = "post" THEN "POST" ELSE m

HttpGet(credential) == [type |-> "HttpGet", credential |-> credential]
HttpPlainBody(credential, method) ==
    [type |-> "HttpPlainBody", credential |-> credential, method |-> method]

(***************************************************************************)
(* update.rs 302-319: find_optional_update_credential, and                 *)
(* find_update_credential.                                                 *)
(***************************************************************************)
find_update_credential(credential) ==
    IF credential \in DOMAIN update_credentials
    THEN [ok |-> TRUE, v |-> update_credentials[credential]]
    ELSE [ok |-> FALSE]

find_optional_update_credential(credential) ==
    IF Len(credential) = 1
    THEN IF find_update_credential(credential[1]).ok
         THEN [ok |-> TRUE, v |-> <<find_update_credential(credential[1]).v>>]
         ELSE [ok |-> FALSE]
    ELSE [ok |-> TRUE, v |-> << >>]

(***************************************************************************)
(* init_update_provider (update.rs 321-378): whether the provider is       *)
(* built.  HttpPlainBody checks the method before the credential.          *)
(***************************************************************************)
init_update_provider_any_method(t) ==
    CASE t.type = "HttpGet" -> find_optional_update_credential(t.credential).ok
      [] t.type = "HttpPlainBody" -> find_optional_update_credential(t.credential).ok
      [] t.type = "Cloudflare" ->
            /\ find_update_credential(t.credential).ok
            /\ find_update_credential(t.credential).v = "HttpBearerToken"

init_update_provider(t) ==
    CASE t.type = "HttpGet" -> find_optional_update_credential(t.credential).ok
      [] t.type = "HttpPlainBody" ->
            /\ to_uppercase(t.method) \in {"POST", "PUT", "PATCH"}
            /\ find_optional_update_credential(t.credential).ok
      [] t.type = "Cloudflare" ->
            /\ find_update_credential(t.credential).ok
            /\ find_update_credential(t.credential).v = "HttpBearerToken"

(***************************************************************************)
(* The update provider settings the name configuration files hold: in     *)
(* both tables one the credential table resolves; in [v4] one that names   *)
(* an unknown credential, in [v6] one with a method that is not supported. *)
(***************************************************************************)
BlockUpdateProviderTypes(section) ==
    IF section = "v4"
    THEN {HttpGet(<<"bearer">>), HttpGet(<<"unknown">>)}
    ELSE {HttpGet(<<"bearer">>), HttpPlainBody(<< >>, "GET")}

(***************************************************************************)
(* config.rs: NameProvidersConf, NameConf, NameState.                      *)
(* A block is identified by the table of the file it was parsed from       *)
(* (section), which stands for its query and address provider settings.    *)
(***************************************************************************)
NameProvidersConf ==
    UNION {[section : {section}, enabled : BOOLEAN,
            update_provider_type : BlockUpdateProviderTypes(section)] :
           section \in {"v4", "v6"}}

NameConf(e) ==
    { c \in [name : {ConfiguredName(e)}, renew_interval : Intervals, shared : BOOLEAN,
             v4 : {None} \cup {Some(b) : b \in NameProvidersConf},
             v6 : {None} \cup {Some(b) : b \in NameProvidersConf}] :
        /\ (IsSome(c.v4) => Unwrap(c.v4).section = "v4")
        /\ (IsSome(c.v6) => Unwrap(c.v6).section = "v6") }

NameState == [name : Names, next : 0..(MaxTime + MaxInterval)]

NameState_new(name, next) == [name |-> name, next |-> next]

(***************************************************************************)
(* The content of a NameState file: absent, present but not parseable as   *)
(* a NameState, or a NameState.                                            *)
(***************************************************************************)
NoFile == [kind |-> "absent"]
Unreadable == [kind |-> "unreadable"]
FileOf(s) == [kind |-> "state", state |-> s]
StateFiles(e) ==
    {NoFile, Unreadable} \cup {FileOf(s) : s \in {t \in NameState : t.name \in NamesOf(e)}}

VARIABLES
    stateFile,               \* name_state_dir: entry -> content of its NameState file
    now,                     \* SystemTime::now(), in seconds
    exit_status,             \* None while running or never run, Some(0) or Some(1) after main
    dry_run,                 \* Args.dry_run (main.rs 38-40), the command line of every invocation
    pc,                      \* position of the running invocation
    child,                   \* index of the directory entry the loop of run is at
    name_conf,               \* renew_name: the NameConf read from the entry (lines 154-191)
    name,                    \* renew_name: name_conf.name(), all that is read of it after 191
    name_state,              \* renew_name: Option of the fresh NameState of read_state
    v4_name_providers_conf,  \* renew_name: Option of the block the v4 pass uses
    v6_name_providers_conf,  \* renew_name: Option of the block the v6 pass uses
    is_v6,                   \* renew: the family of the current pass
    ips,                     \* renew: the addresses the Query Provider returned
    ip,                      \* renew: Option of the address the Address Provider returned
    updated,                 \* renew_name: the updated flag
    before,                  \* record: the NameState files when the cycle started
    read,                    \* record: Option of the clock and interval read_state saw
    compared,                \* record: family -> Option of what line 229 compared
    calls,                   \* record: the fallible operations of the cycle, in order
    outcome,                 \* record: what run logged for the last finished cycle
    failed_due               \* record: the entries whose last due cycle failed, until their next

locals == <<name_conf, name, name_state, v4_name_providers_conf, v6_name_providers_conf,
            is_v6, ips, ip, updated>>

record == <<before, read, compared, calls, outcome, failed_due>>

orchestrator == <<stateFile, now, exit_status, dry_run, pc, child, locals, record>>

(***************************************************************************)
(* dns.rs, DnsClient: the state of one resolver client and of the          *)
(* do_query call it is in.                                                 *)
(***************************************************************************)
VARIABLES
    dns_pc,                  \* position: "new", "client", "loop" or "done"
    caller,                  \* Option of the provider that builds the client
    client,                  \* Option of the DnsClient: its is_udp and is_tls
    flags,                   \* the is_udp and is_tls DnsClient::new was called with
    request,                 \* Option of do_query's name and is_via_v6
    socket_addrs,            \* Option of what to_socket_addrs returned (line 121)
    addrs,                   \* the filtered addresses the loop has still to visit
    has_tried,               \* do_query: has_tried
    attempts,                \* the transport attempts made, in order
    dns_result               \* Option of what new or do_query returned

resolver == <<dns_pc, caller, client, flags, request, socket_addrs, addrs, has_tried,
              attempts, dns_result>>

(***************************************************************************)
(* update.rs, CloudflareUpdateProvider: the state of one provider and of   *)
(* the update call (276-299) it is in.                                     *)
(***************************************************************************)
VARIABLES
    cf_pc,                   \* position: "idle", "queried" or "done"
    cf_self,                 \* Option of the provider: proxied, ttl, comment
    cf_args,                 \* Option of update's name and ip
    cf_old,                  \* Option of what self.query returned: an Option of a DnsRecord
    cf_requests,             \* the requests sent to the API, in order
    cf_responses,            \* what came back for each request, in the same order
    cf_result                \* Option of what update returned

cloudflare == <<cf_pc, cf_self, cf_args, cf_old, cf_requests, cf_responses, cf_result>>

(***************************************************************************)
(* One call of a provider that answers from a single exchange: the         *)
(* DohGoogle Query Provider (query.rs 42-69), the HttpGet and              *)
(* HttpPlainBody Update Providers (update.rs 23-46, 68-94), the Static,    *)
(* IfconfigIo and SslipIo Address Providers (ip.rs 24-46, 65-114,          *)
(* 147-159).                                                               *)
(***************************************************************************)
VARIABLES
    pv_self,                 \* Option of the provider called: its variant and fields
    pv_args,                 \* Option of the arguments of the call
    pv_answer,               \* Option of what the network answered, None if nothing was asked
    pv_result                \* Option of what the call returned

single_call == <<pv_self, pv_args, pv_answer, pv_result>>

providers == <<resolver, cloudflare, single_call>>

beside_resolver == <<orchestrator, cloudflare, single_call>>

beside_cloudflare == <<orchestrator, resolver, single_call>>

beside_single_call == <<orchestrator, resolver, cloudflare>>

vars == <<orchestrator, providers>>

Call(op, v6, arg, res) == [op |-> op, is_v6 |-> v6, arg |-> arg, res |-> res]

ProviderOps == {"query", "ip", "init_update", "update"}

(***************************************************************************)
(* Result<T>: Ok(v) or Err.                                                *)
(***************************************************************************)
Ok(v) == [ok |-> TRUE, v |-> v]
Err == [ok |-> FALSE]
ResOf(r) == IF r.ok THEN "ok" ELSE "err"

(***************************************************************************)
(* next (main.rs 98-107): the clock plus the interval, in seconds.         *)
(***************************************************************************)
next(interval) == now + interval

(***************************************************************************)
(* read_state (main.rs 109-142).  Err when the file exists and does not    *)
(* parse; Ok(None) when the persisted state carries the configured name    *)
(* and its next lies in the future; otherwise Ok(Some(fresh state)).       *)
(***************************************************************************)
read_state_always_due(file, conf) ==
    IF file = Unreadable THEN Err
    ELSE Ok(Some(NameState_new(conf.name, next(conf.renew_interval))))

read_state_no_rename(file, conf) ==
    IF file = Unreadable THEN Err
    ELSE IF file = NoFile
        THEN Ok(Some(NameState_new(conf.name, next(conf.renew_interval))))
    ELSE IF file.state.next > now
        THEN Ok(None)
    ELSE Ok(Some(NameState_new(conf.name, next(conf.renew_interval))))

read_state_copy_next(file, conf) ==
    IF file = Unreadable THEN Err
    ELSE IF file = NoFile
        THEN Ok(Some(NameState_new(conf.name, next(conf.renew_interval))))
    ELSE IF file.state.name # conf.name
        THEN Ok(Some(NameState_new(conf.name, next(conf.renew_interval))))
    ELSE IF file.state.next > now
        THEN Ok(None)
    ELSE Ok(Some(NameState_new(conf.name, file.state.next)))

read_state_due_before(file, conf) ==
    IF file = Unreadable THEN Err
    ELSE IF file = NoFile
        THEN Ok(Some(NameState_new(conf.name, next(conf.renew_interval))))
    ELSE IF file.state.name # conf.name
        THEN Ok(Some(NameState_new(conf.name, next(conf.renew_interval))))
    ELSE IF file.state.next < now
        THEN Ok(None)
    ELSE Ok(Some(NameState_new(conf.name, next(conf.renew_interval))))

read_state_unparsed_as_absent(file, conf) ==
    IF file = Unreadable \/ file = NoFile
        THEN Ok(Some(NameState_new(conf.name, next(conf.renew_interval))))
    ELSE IF file.state.name # conf.name
        THEN Ok(Some(NameState_new(conf.name, next(conf.renew_interval))))
    ELSE IF file.state.next > now
        THEN Ok(None)
    ELSE Ok(Some(NameState_new(conf.name, next(conf.renew_interval))))

read_state(file, conf) ==
    IF file = Unreadable THEN Err
    ELSE IF file = NoFile
        THEN Ok(Some(NameState_new(conf.name, next(conf.renew_interval))))
    ELSE IF file.state.name # conf.name
        THEN Ok(Some(NameState_new(conf.name, next(conf.renew_interval))))
    ELSE IF file.state.next > now
        THEN Ok(None)
    ELSE Ok(Some(NameState_new(conf.name, next(conf.renew_interval))))

(***************************************************************************)
(* renew_name, main.rs 169-191: the block each family uses.                *)
(* Option::or_else takes the other family's block only when the own one is *)
(* None and shared is set; Option::filter then drops a disabled block.     *)
(***************************************************************************)
OrElse(o, alt) == IF IsSome(o) THEN o ELSE alt
Filter(o) == IF IsSome(o) /\ Unwrap(o).enabled THEN o ELSE None

EffectiveV4FilterFirst(c) ==
    OrElse(Filter(c.v4), IF c.shared THEN Filter(c.v6) ELSE None)

EffectiveV4(c) == Filter(OrElse(c.v4, IF c.shared THEN c.v6 ELSE None))
EffectiveV6(c) == Filter(OrElse(c.v6, IF c.shared THEN c.v4 ELSE None))

(***************************************************************************)
(* renew's parameter name_providers_conf (main.rs 215).                    *)
(***************************************************************************)
name_providers_conf == IF is_v6 THEN v6_name_providers_conf ELSE v4_name_providers_conf

NoComparison == [v6 \in BOOLEAN |-> None]

(***************************************************************************)
(* No resolver client exists.                                              *)
(***************************************************************************)
NoResolver ==
    /\ dns_pc = "new"
    /\ caller = None
    /\ client = None
    /\ flags = None
    /\ request = None
    /\ socket_addrs = None
    /\ addrs = << >>
    /\ has_tried = FALSE
    /\ attempts = << >>
    /\ dns_result = None

(***************************************************************************)
(* No Cloudflare provider exists.                                          *)
(***************************************************************************)
NoCloudflare ==
    /\ cf_pc = "idle"
    /\ cf_self = None
    /\ cf_args = None
    /\ cf_old = None
    /\ cf_requests = << >>
    /\ cf_responses = << >>
    /\ cf_result = None

(***************************************************************************)
(* No provider call is under way.                                          *)
(***************************************************************************)
NoCall ==
    /\ pv_self = None
    /\ pv_args = None
    /\ pv_answer = None
    /\ pv_result = None

(***************************************************************************)
(* The orchestrator before its first invocation, over the given NameState  *)
(* files.                                                                  *)
(***************************************************************************)
NotStarted(files, flag) ==
    /\ stateFile = files
    /\ now = 0
    /\ exit_status = None
    /\ dry_run = flag
    /\ pc = "idle"
    /\ child = 0
    /\ name_conf = None
    /\ name = None
    /\ name_state = None
    /\ v4_name_providers_conf = None
    /\ v6_name_providers_conf = None
    /\ is_v6 = FALSE
    /\ ips = {}
    /\ ip = None
    /\ updated = FALSE
    /\ before = stateFile
    /\ read = None
    /\ compared = NoComparison
    /\ calls = << >>
    /\ outcome = "none"
    /\ failed_due = {}

InitWith(flag) ==
    /\ \E files \in [Entries -> UNION {StateFiles(e) : e \in Entries}] :
         /\ \A e \in Entries : files[e] \in StateFiles(e)
         /\ NotStarted(files, flag)
    /\ NoResolver
    /\ NoCloudflare
    /\ NoCall

(***************************************************************************)
(* The program is started again and again with one command line: without   *)
(* --dry-run (Init) or with it (InitDryRun).                               *)
(***************************************************************************)
Init == InitWith(FALSE)

InitDryRun == InitWith(TRUE)

(***************************************************************************)
(* run, main.rs 89-94: the three arms of the match on renew_name's result  *)
(* log the outcome; the loop then moves to the next directory entry.  The  *)
(* locals of renew_name are dropped.                                       *)
(***************************************************************************)
DropLocals ==
    /\ name_conf' = None
    /\ name' = None
    /\ name_state' = None
    /\ v4_name_providers_conf' = None
    /\ v6_name_providers_conf' = None
    /\ is_v6' = FALSE
    /\ ips' = {}
    /\ ip' = None
    /\ updated' = FALSE

RunArmBreak(result) ==
    /\ outcome' = result
    /\ failed_due' = IF result = "failed" /\ IsSome(name_state)
                     THEN failed_due \cup {child}
                     ELSE failed_due
    /\ child' = IF result = "failed" THEN NumEntries + 1 ELSE child + 1
    /\ pc' = "loop"
    /\ DropLocals

RunArmAgain(result) ==
    /\ outcome' = result
    /\ failed_due' = IF result = "failed" /\ IsSome(name_state)
                     THEN failed_due \cup {child}
                     ELSE failed_due
    /\ child' = IF result = "failed" THEN child ELSE child + 1
    /\ pc' = "loop"
    /\ DropLocals

RunArm(result) ==
    /\ outcome' = result
    /\ failed_due' = IF result = "failed" /\ IsSome(name_state)
                     THEN failed_due \cup {child}
                     ELSE failed_due
    /\ child' = child + 1
    /\ pc' = "loop"
    /\ DropLocals

(***************************************************************************)
(* The ? operator in renew_name and renew: the error is returned to run    *)
(* at once; nothing after it in renew_name is executed.                    *)
(***************************************************************************)
BailPersist ==
    /\ RunArm("failed")
    /\ stateFile' = IF IsSome(name_state)
                    THEN [stateFile EXCEPT ![child] = FileOf(Unwrap(name_state))]
                    ELSE stateFile

BailKeepUpdated ==
    /\ RunArm(IF updated THEN "renewed" ELSE "failed")
    /\ stateFile' = IF updated /\ IsSome(name_state)
                    THEN [stateFile EXCEPT ![child] = FileOf(Unwrap(name_state))]
                    ELSE stateFile

Bail ==
    /\ RunArm("failed")
    /\ UNCHANGED stateFile

(***************************************************************************)
(* main.rs 195-201: the v4 pass, then the v6 pass, then the write.         *)
(* v4conf and v6conf are the two blocks as they are when the pass starts.  *)
(***************************************************************************)
EnterPassNoQuery(v6) ==
    /\ pc' = "address"
    /\ is_v6' = v6
    /\ ips' = {}
    /\ ip' = None

EnterPass(v6) ==
    /\ pc' = "query"
    /\ is_v6' = v6
    /\ ips' = {}
    /\ ip' = None

EnterWrite ==
    /\ pc' = "write"
    /\ ips' = {}
    /\ ip' = None
    /\ UNCHANGED is_v6

AfterV4(v6conf) ==
    IF IsSome(v6conf) THEN EnterPass(TRUE) ELSE EnterWrite

AfterReadState(v4conf, v6conf) ==
    IF IsSome(v4conf) THEN EnterPass(FALSE) ELSE AfterV4(v6conf)

AfterPass ==
    IF is_v6 THEN EnterWrite ELSE AfterV4(v6_name_providers_conf)


(***************************************************************************)
(* main (239-245) and run 68-77: the arguments are parsed; loading the     *)
(* configuration, initialising the log and listing the directory either    *)
(* all succeed, and the loop starts, or run returns the error and the      *)
(* process exits with 1.                                                   *)
(***************************************************************************)
StartInvocation ==
    /\ UNCHANGED providers
    /\ pc = "idle"
    /\ \E started \in BOOLEAN :
         IF started
         THEN /\ pc' = "loop"
              /\ child' = 1
              /\ exit_status' = None
         ELSE /\ pc' = "idle"
              /\ child' = 0
              /\ exit_status' = Some(1)
    /\ before' = stateFile
    /\ read' = None
    /\ compared' = NoComparison
    /\ calls' = << >>
    /\ outcome' = "none"
    /\ UNCHANGED <<stateFile, now, dry_run, locals, failed_due>>

(***************************************************************************)
(* run 78, 95: the directory is exhausted, run returns Ok(()).             *)
(***************************************************************************)
RunReturnFailing ==
    /\ UNCHANGED providers
    /\ pc = "loop"
    /\ child > NumEntries
    /\ pc' = "idle"
    /\ exit_status' = IF outcome = "failed" THEN Some(1) ELSE Some(0)
    /\ UNCHANGED <<stateFile, now, dry_run, child, locals, record>>

RunReturn ==
    /\ UNCHANGED providers
    /\ pc = "loop"
    /\ child > NumEntries
    /\ pc' = "idle"
    /\ exit_status' = Some(0)
    /\ UNCHANGED <<stateFile, now, dry_run, child, locals, record>>

(***************************************************************************)
(* renew_name 145-162: the entry is read.  An entry that cannot be read or *)
(* a configuration that does not parse is an error; an entry that is not a *)
(* .toml file is skipped.                                                  *)
(***************************************************************************)
EntryKinds == {"io_error", "not_toml", "bad_conf", "conf"}

ReadConf ==
    /\ UNCHANGED providers
    /\ pc = "loop"
    /\ child \in Entries
    /\ before' = stateFile
    /\ read' = None
    /\ compared' = NoComparison
    /\ \E kind \in EntryKinds :
         \/ /\ kind = "io_error"
            /\ calls' = <<Call("read_entry", FALSE, << >>, "err")>>
            /\ Bail
         \/ /\ kind = "not_toml"
            /\ calls' = <<Call("read_entry", FALSE, << >>, "ok")>>
            /\ RunArm("skipped")
            /\ UNCHANGED stateFile
         \/ /\ kind = "bad_conf"
            /\ calls' = <<Call("read_entry", FALSE, << >>, "ok"),
                          Call("read_conf", FALSE, << >>, "err")>>
            /\ Bail
         \/ /\ kind = "conf"
            /\ calls' = <<Call("read_entry", FALSE, << >>, "ok"),
                          Call("read_conf", FALSE, << >>, "ok")>>
            /\ \E c \in NameConf(child) : name_conf' = Some(c)
            /\ pc' = "read_state"
            /\ UNCHANGED <<stateFile, child, outcome, failed_due, name, name_state,
                           v4_name_providers_conf, v6_name_providers_conf,
                           is_v6, ips, ip, updated>>
    /\ UNCHANGED <<now, exit_status, dry_run>>

(***************************************************************************)
(* renew_name 164-193: read_state, then the choice of the blocks.          *)
(***************************************************************************)
ReadState ==
    /\ UNCHANGED providers
    /\ pc = "read_state"
    /\ LET conf == Unwrap(name_conf)
           r == read_state(stateFile[child], conf)
       IN  /\ read' = Some([at |-> now, interval |-> conf.renew_interval])
           /\ calls' = Append(calls, Call("read_state", FALSE, << >>, ResOf(r)))
           /\ IF ~r.ok THEN Bail
              ELSE IF r.v = None
                  THEN RunArm("skipped") /\ UNCHANGED stateFile
              ELSE /\ name_state' = r.v
                   /\ name' = Some(conf.name)
                   /\ name_conf' = None
                   /\ v4_name_providers_conf' = EffectiveV4(conf)
                   /\ v6_name_providers_conf' = EffectiveV6(conf)
                   /\ updated' = FALSE
                   /\ AfterReadState(EffectiveV4(conf), EffectiveV6(conf))
                   /\ failed_due' = failed_due \ {child}
                   /\ UNCHANGED <<stateFile, child, outcome>>
    /\ UNCHANGED <<now, exit_status, dry_run, before, compared>>

(***************************************************************************)
(* renew 219-223: the Query Provider is built (init_query_provider has no  *)
(* failing arm, query.rs 238-266) and asked for the published addresses.   *)
(* Its answer is an input: an error or a list of addresses.                *)
(***************************************************************************)
QueryResults == {Err} \cup {Ok(s) : s \in SUBSET IpAddrs}

Query ==
    /\ UNCHANGED providers
    /\ pc = "query"
    /\ \E r \in QueryResults :
         /\ calls' = Append(calls, Call("query", is_v6, <<Unwrap(name)>>, ResOf(r)))
         /\ IF ~r.ok THEN Bail
            ELSE /\ ips' = r.v
                 /\ pc' = "address"
                 /\ UNCHANGED <<stateFile, child, outcome, failed_due, name_conf, name, name_state,
                                v4_name_providers_conf, v6_name_providers_conf,
                                is_v6, ip, updated>>
    /\ UNCHANGED <<now, exit_status, dry_run, before, read, compared>>

(***************************************************************************)
(* renew 225-227: the Address Provider is built (init_ip_provider has no   *)
(* failing arm, ip.rs 117-141) and asked for the current address.          *)
(***************************************************************************)
AddressResults == {Err} \cup {Ok(a) : a \in IpAddrs}

Address ==
    /\ UNCHANGED providers
    /\ pc = "address"
    /\ \E r \in AddressResults :
         /\ calls' = Append(calls, Call("ip", is_v6, << >>, ResOf(r)))
         /\ IF ~r.ok THEN Bail
            ELSE /\ ip' = Some(r.v)
                 /\ pc' = "compare"
                 /\ UNCHANGED <<stateFile, child, outcome, failed_due, name_conf, name, name_state,
                                v4_name_providers_conf, v6_name_providers_conf,
                                is_v6, ips, updated>>
    /\ UNCHANGED <<now, exit_status, dry_run, before, read, compared>>

(***************************************************************************)
(* renew_name 196, 200: updated |= renew(..)?, then the next pass.         *)
(***************************************************************************)
RenewReturnsAssign(changed) ==
    /\ updated' = changed
    /\ AfterPass
    /\ UNCHANGED <<stateFile, child, outcome, failed_due, name_conf, name, name_state,
                   v4_name_providers_conf, v6_name_providers_conf>>

RenewReturns(changed) ==
    /\ updated' = (updated \/ changed)
    /\ AfterPass
    /\ UNCHANGED <<stateFile, child, outcome, failed_due, name_conf, name, name_state,
                   v4_name_providers_conf, v6_name_providers_conf>>

(***************************************************************************)
(* renew 229-233: an address that is already published ends the pass with  *)
(* Ok(false); otherwise the pass goes on to the Update Provider.           *)
(***************************************************************************)
ToInitUpdate ==
    /\ pc' = "init_update"
    /\ ips' = {}
    /\ UNCHANGED <<stateFile, child, outcome, failed_due, name_conf, name, name_state,
                   v4_name_providers_conf, v6_name_providers_conf, is_v6, ip, updated>>

ContainsNoCheck == ToInitUpdate

Contains ==
    IF Unwrap(ip) \in ips THEN RenewReturns(FALSE) ELSE ToInitUpdate

Compare ==
    /\ UNCHANGED providers
    /\ pc = "compare"
    /\ compared' = [compared EXCEPT
                      ![is_v6] = Some([ip |-> Unwrap(ip), found |-> Unwrap(ip) \in ips])]
    /\ Contains
    /\ UNCHANGED <<now, exit_status, dry_run, before, read, calls>>

(***************************************************************************)
(* renew 234-235: init_update_provider (update.rs 321-378) on the block's   *)
(* update_provider_type.                                                   *)
(***************************************************************************)
InitUpdate ==
    /\ UNCHANGED providers
    /\ pc = "init_update"
    /\ LET update_provider_type == Unwrap(name_providers_conf).update_provider_type
           valid == init_update_provider(update_provider_type)
       IN
         /\ calls' = Append(calls, Call("init_update", is_v6, <<update_provider_type>>,
                                        IF valid THEN "ok" ELSE "err"))
         /\ IF ~valid THEN Bail
            ELSE /\ pc' = "update"
                 /\ UNCHANGED <<stateFile, child, outcome, failed_due, locals>>
    /\ UNCHANGED <<now, exit_status, dry_run, before, read, compared>>

(***************************************************************************)
(* renew 236: update_provider.update(name_conf.name(), ip).  The provider  *)
(* answers Ok(true), Ok(false) or an error.                                *)
(***************************************************************************)
UpdateResults == {Err, Ok(TRUE), Ok(FALSE)}

UpdateArgs == <<Unwrap(name), Unwrap(ip)>>

Update ==
    /\ UNCHANGED providers
    /\ pc = "update"
    /\ \E r \in UpdateResults :
         /\ calls' = Append(calls, Call("update", is_v6, UpdateArgs,
                                  IF ~r.ok THEN "err" ELSE IF r.v THEN "true" ELSE "false"))
         /\ IF ~r.ok THEN Bail
            ELSE RenewReturns(r.v)
    /\ UNCHANGED <<now, exit_status, dry_run, before, read, compared>>

(***************************************************************************)
(* renew_name 203-209: the fresh NameState is written, and the result is   *)
(* Ok(Some(name)) when updated is set and Ok(None) otherwise.  A write     *)
(* that fails (the file cannot be created) is an error.                    *)
(***************************************************************************)
ResultInverted == IF updated THEN "skipped" ELSE "renewed"

Result == IF updated THEN "renewed" ELSE "skipped"

Written == [stateFile EXCEPT ![child] = FileOf(Unwrap(name_state))]

WriteIfUpdated ==
    /\ UNCHANGED providers
    /\ pc = "write"
    /\ \E written \in BOOLEAN :
         /\ calls' = Append(calls, Call("write", FALSE, << >>,
                                        IF written THEN "ok" ELSE "err"))
         /\ IF written
            THEN /\ stateFile' = IF updated THEN Written ELSE stateFile
                 /\ RunArm(Result)
            ELSE Bail
    /\ UNCHANGED <<now, exit_status, dry_run, before, read, compared>>

WriteIfPassed ==
    /\ UNCHANGED providers
    /\ pc = "write"
    /\ \E written \in BOOLEAN :
         /\ calls' = Append(calls, Call("write", FALSE, << >>,
                                        IF written THEN "ok" ELSE "err"))
         /\ IF written
            THEN /\ stateFile' = IF \E i \in DOMAIN calls : calls[i].op = "query"
                                 THEN Written ELSE stateFile
                 /\ RunArm(Result)
            ELSE Bail
    /\ UNCHANGED <<now, exit_status, dry_run, before, read, compared>>

Write ==
    /\ UNCHANGED providers
    /\ pc = "write"
    /\ \E written \in BOOLEAN :
         /\ calls' = Append(calls, Call("write", FALSE, << >>,
                                        IF written THEN "ok" ELSE "err"))
         /\ IF written
            THEN /\ stateFile' = Written
                 /\ RunArm(Result)
            ELSE Bail
    /\ UNCHANGED <<now, exit_status, dry_run, before, read, compared>>

(***************************************************************************)
(* The clock advances at any moment, also while a cycle is under way.      *)
(***************************************************************************)
Tick ==
    /\ UNCHANGED providers
    /\ now < MaxTime
    /\ now' = now + 1
    /\ UNCHANGED <<stateFile, exit_status, dry_run, pc, child, locals, record>>

Next ==
    \/ StartInvocation
    \/ RunReturn
    \/ ReadConf
    \/ ReadState
    \/ Query
    \/ Address
    \/ Compare
    \/ InitUpdate
    \/ Update
    \/ Write
    \/ Tick

Spec == Init /\ [][Next]_vars

SpecDryRun == InitDryRun /\ [][Next]_vars


(***************************************************************************)
(* Reading the record of the current or last cycle.                        *)
(***************************************************************************)
CycleOver == pc \in {"loop", "idle"} /\ calls # << >>
CycleEntry == IF pc \in {"loop", "idle"} THEN child - 1 ELSE child

Made(op, v6) == \E i \in DOMAIN calls : calls[i].op = op /\ calls[i].is_v6 = v6
MadeOk(op, v6) ==
    \E i \in DOMAIN calls : calls[i].op = op /\ calls[i].is_v6 = v6 /\ calls[i].res = "ok"
HasError == \E i \in DOMAIN calls : calls[i].res = "err"
ProviderError == \E i \in DOMAIN calls : calls[i].res = "err" /\ calls[i].op \in ProviderOps
NoProviderCall == \A i \in DOMAIN calls : calls[i].op \notin ProviderOps
ChangedBy(v6) ==
    \E i \in DOMAIN calls :
        calls[i].op = "update" /\ calls[i].is_v6 = v6 /\ calls[i].res = "true"

Found(v6) == IsSome(compared[v6]) /\ Unwrap(compared[v6]).found
Absent(v6) == IsSome(compared[v6]) /\ ~Unwrap(compared[v6]).found

TreatedNotDue ==
    /\ CycleOver
    /\ calls[Len(calls)].op = "read_state"
    /\ calls[Len(calls)].res = "ok"
TreatedDue == MadeOk("read_state", FALSE) /\ ~TreatedNotDue

IsState(file) == file.kind = "state"
PriorFile == before[CycleEntry]
FreshState == NameState_new(ConfiguredName(CycleEntry),
                            Unwrap(read).at + Unwrap(read).interval)

(***************************************************************************)
(* C1. Persistence gating: when a provider construction or a provider call *)
(* of a cycle returned an error, every NameState file is as it was when    *)
(* the cycle started; a file that was absent is still absent.              *)
(***************************************************************************)
C1_PersistenceGating == ProviderError => stateFile = before

C1_Witness ==
    /\ CycleOver
    /\ outcome = "failed"
    /\ \E i \in DOMAIN calls :
         calls[i].op = "update" /\ calls[i].is_v6 /\ calls[i].res = "err"
    /\ ChangedBy(FALSE)
    /\ IsState(PriorFile)

(***************************************************************************)
(* C2. NotDue skip: when read_state found a NameState that carries the     *)
(* configured name and a next strictly greater than the clock, the cycle   *)
(* is over, no Query, Address or Update Provider was built or called, the  *)
(* files are unchanged and run logged a skip.                              *)
(***************************************************************************)
NotDueCase ==
    /\ IsSome(read)
    /\ IsState(PriorFile)
    /\ PriorFile.state.name = ConfiguredName(CycleEntry)
    /\ PriorFile.state.next > Unwrap(read).at

C2_NotDueSkip ==
    NotDueCase =>
        /\ CycleOver
        /\ NoProviderCall
        /\ stateFile = before
        /\ outcome = "skipped"

C2_Witness == NotDueCase /\ CycleOver /\ child = NumEntries + 1

(***************************************************************************)
(* C3. Due on missing state or rename: when read_state found no file, or a *)
(* NameState whose name is not the configured one, the name is treated as  *)
(* Due whatever the persisted next is, and the fresh NameState carries the *)
(* configured name and the clock plus the interval.                        *)
(***************************************************************************)
MissingOrRenamed ==
    /\ IsSome(read)
    /\ \/ PriorFile = NoFile
       \/ IsState(PriorFile) /\ PriorFile.state.name # ConfiguredName(CycleEntry)

C3_DueOnMissingOrRename ==
    MissingOrRenamed =>
        /\ TreatedDue
        /\ (~CycleOver => name_state = Some(FreshState))

C3_Witness ==
    /\ MissingOrRenamed
    /\ IsState(PriorFile)
    /\ PriorFile.state.next > Unwrap(read).at
    /\ pc = "query"

(***************************************************************************)
(* C4. Invariant of persisted state: a file differs from what it was when  *)
(* the cycle started only for the entry of the cycle and only after a      *)
(* successful write; what a cycle wrote carries the configured name and    *)
(* the clock at the due decision plus the interval; over a NameState of    *)
(* the same name its next is at least the replaced next plus the interval, *)
(* so it is a later one whenever the interval is positive.                 *)
(***************************************************************************)
C4_PersistedState ==
    /\ \A e \in Entries :
         stateFile[e] # before[e] => MadeOk("write", FALSE) /\ e = CycleEntry
    /\ MadeOk("write", FALSE) =>
         /\ IsSome(read)
         /\ stateFile[CycleEntry] = FileOf(FreshState)
         /\ (IsState(PriorFile) /\ PriorFile.state.name = FreshState.name
               => FreshState.next >= PriorFile.state.next + Unwrap(read).interval)

C4_Witness ==
    /\ MadeOk("write", FALSE)
    /\ IsState(PriorFile)
    /\ PriorFile.state.name = ConfiguredName(CycleEntry)
    /\ Unwrap(read).interval > 0
    /\ now > Unwrap(read).at


(***************************************************************************)
(* C5. Idempotence: for a family whose Address Provider returned an        *)
(* address that is in the list the Query Provider returned, no Update      *)
(* Provider is built or called in the cycle, and the family adds nothing   *)
(* to updated: updated can only come from the other family.                *)
(***************************************************************************)
C5_Idempotence ==
    \A v6 \in BOOLEAN :
        Found(v6) =>
            /\ ~Made("init_update", v6)
            /\ ~Made("update", v6)
            /\ ~(pc \in {"init_update", "update"} /\ is_v6 = v6)
            /\ (updated => ChangedBy(~v6))
            /\ (CycleOver /\ outcome = "renewed" => ChangedBy(~v6))

C5_Witness ==
    /\ Found(FALSE)
    /\ Found(TRUE)
    /\ MadeOk("write", FALSE)
    /\ outcome = "skipped"

(***************************************************************************)
(* C6 as stated: for each family a cycle compared, once the pass is over   *)
(* the Update Provider was called exactly when the address was absent      *)
(* from the published list.                                                *)
(***************************************************************************)
PassOver(v6) == CycleOver \/ pc = "write" \/ (~v6 /\ is_v6)

C6_UpdateExactlyOnMismatch ==
    \A v6 \in BOOLEAN :
        IsSome(compared[v6]) /\ PassOver(v6) => (Made("update", v6) <=> Absent(v6))

(***************************************************************************)
(* C6, amended. Update on mismatch: for each family of a due name the      *)
(* Update Provider is built exactly when the address is absent from the    *)
(* published list, and it is called exactly when it was built without      *)
(* error; it is called with the configured name and that address; the      *)
(* updated flag is the OR of the changed results of the v4 and v6 calls.   *)
(***************************************************************************)
C6_UpdateOnMismatch ==
    /\ \A v6 \in BOOLEAN :
         /\ Made("init_update", v6) <=>
              (Absent(v6) /\ ~(pc = "init_update" /\ is_v6 = v6))
         /\ Made("update", v6) <=>
              (MadeOk("init_update", v6) /\ ~(pc = "update" /\ is_v6 = v6))
         /\ \A i \in DOMAIN calls :
              calls[i].op = "update" /\ calls[i].is_v6 = v6 =>
                  calls[i].arg = <<ConfiguredName(CycleEntry), Unwrap(compared[v6]).ip>>
    /\ pc \in {"query", "address", "compare", "init_update", "update", "write"} =>
         (updated <=> (ChangedBy(FALSE) \/ ChangedBy(TRUE)))
    /\ CycleOver /\ ~HasError =>
         (outcome = "renewed" <=> (ChangedBy(FALSE) \/ ChangedBy(TRUE)))

C6_Witness ==
    /\ pc = "write"
    /\ ChangedBy(FALSE)
    /\ Found(TRUE)
    /\ updated

(***************************************************************************)
(* C7. A due cycle that ends without error and without a changing update   *)
(* has written the fresh NameState to the entry's file, and run logged a   *)
(* skip (renewed = false).                                                 *)
(***************************************************************************)
C7_RewriteWithoutUpdate ==
    CycleOver /\ TreatedDue /\ ~HasError /\ ~ChangedBy(FALSE) /\ ~ChangedBy(TRUE) =>
        /\ stateFile[CycleEntry] = FileOf(FreshState)
        /\ outcome = "skipped"

C7_Witness ==
    /\ CycleOver
    /\ TreatedDue
    /\ ~HasError
    /\ Found(FALSE)
    /\ ~Made("query", TRUE)
    /\ IsState(PriorFile)
    /\ PriorFile.state.name = ConfiguredName(CycleEntry)

(***************************************************************************)
(* C8. Shared-fallback rule: the block of a family is its own block when   *)
(* that is present; else, when shared is set, the other family's block;    *)
(* else none; and the chosen block counts only when it is enabled.  A      *)
(* present but disabled own block is not replaced, a disabled fallback     *)
(* block is not used.  A pass runs for exactly the families that have a    *)
(* block by this rule.                                                     *)
(***************************************************************************)
FallbackRule(own, other, shared) ==
    CASE IsSome(own) /\ Unwrap(own).enabled -> own
      [] IsSome(own) /\ ~Unwrap(own).enabled -> None
      [] own = None /\ shared /\ IsSome(other) /\ Unwrap(other).enabled -> other
      [] OTHER -> None

PassPositions == {"query", "address", "compare", "init_update", "update"}

BlocksFollowRule ==
    pc = "read_state" /\ pc' \in {"query", "write"} =>
        LET c == Unwrap(name_conf)
        IN  /\ v4_name_providers_conf' = FallbackRule(c.v4, c.v6, c.shared)
            /\ v6_name_providers_conf' = FallbackRule(c.v6, c.v4, c.shared)

PassesFollowBlocks ==
    /\ pc \in PassPositions => IsSome(name_providers_conf)
    /\ pc \in PassPositions /\ is_v6 /\ IsSome(v4_name_providers_conf) => Made("query", FALSE)
    /\ pc = "write" =>
         /\ IsSome(v4_name_providers_conf) <=> Made("query", FALSE)
         /\ IsSome(v6_name_providers_conf) <=> Made("query", TRUE)

C8_SharedFallback == [][BlocksFollowRule]_vars /\ []PassesFollowBlocks

C8_Witness ==
    /\ pc = "query"
    /\ ~is_v6
    /\ Unwrap(v4_name_providers_conf).section = "v6"
    /\ v6_name_providers_conf = v4_name_providers_conf

(***************************************************************************)
(* C9. Terminal outcomes: run logs one of renewed, skipped and failed for  *)
(* every cycle: failed exactly when an operation of the cycle returned an  *)
(* error, renewed exactly when none did and an update changed the record,  *)
(* skipped when the name was not due and when it was due with no usable    *)
(* family.                                                                 *)
(***************************************************************************)
C9_TerminalOutcomes ==
    CycleOver =>
        /\ outcome \in {"renewed", "skipped", "failed"}
        /\ (outcome = "failed" <=> HasError)
        /\ (outcome = "renewed" <=> (~HasError /\ (ChangedBy(FALSE) \/ ChangedBy(TRUE))))
        /\ (TreatedNotDue => outcome = "skipped")
        /\ (TreatedDue /\ ~HasError /\ NoProviderCall => outcome = "skipped")

C9_Witness ==
    /\ CycleOver
    /\ outcome = "renewed"
    /\ Made("update", FALSE)
    /\ ~ChangedBy(FALSE)
    /\ ChangedBy(TRUE)

(***************************************************************************)
(* C10. Name independence: a cycle that ends, failed or not, moves the     *)
(* loop to the next entry, and run returns only after the last entry; a    *)
(* cycle changes no file but its own entry's; every cycle starts with      *)
(* fresh locals, so nothing of an earlier name reaches a later one.        *)
(***************************************************************************)
LoopGoesOn ==
    pc \notin {"idle", "loop"} /\ pc' \in {"idle", "loop"} =>
        pc' = "loop" /\ child' = child + 1

OwnFileOnly == \A e \in Entries : e # child => stateFile'[e] = stateFile[e]

FreshLocals ==
    pc = "loop" =>
        /\ locals = <<None, None, None, None, None, FALSE, {}, None, FALSE>>
        /\ child \in 1..(NumEntries + 1)

AllEntriesVisited == exit_status = Some(0) => child = NumEntries + 1

C10_NameIndependence ==
    /\ [][LoopGoesOn /\ OwnFileOnly]_vars
    /\ [](FreshLocals /\ AllEntriesVisited)

C10_Witness ==
    /\ pc = "write"
    /\ child = NumEntries
    /\ outcome = "failed"
    /\ updated
    /\ before[1] = stateFile[1]

(***************************************************************************)
(* C11. Dry run: while an invocation started with the dry_run flag runs,   *)
(* no cycle of it has called an Update Provider.                           *)
(***************************************************************************)
C11_DryRunNoUpdate == dry_run => ~Made("update", FALSE) /\ ~Made("update", TRUE)

(***************************************************************************)
(* The configuration errors of an update provider setting, in the claim's  *)
(* words: it names a credential the table does not hold, or it is an       *)
(* HttpPlainBody with a method other than POST, PUT and PATCH.             *)
(***************************************************************************)
MissingCredential(t) ==
    IF t.type = "Cloudflare"
    THEN t.credential \notin DOMAIN update_credentials
    ELSE t.credential # << >> /\ t.credential[1] \notin DOMAIN update_credentials

UnsupportedMethod(t) ==
    t.type = "HttpPlainBody" /\ to_uppercase(t.method) \notin {"POST", "PUT", "PATCH"}

ConfError(t) == MissingCredential(t) \/ UnsupportedMethod(t)

BadBlock(b) == IsSome(b) /\ ConfError(Unwrap(b).update_provider_type)

DueCycleEnds == pc \in PassPositions \cup {"write"} /\ pc' = "loop"

(***************************************************************************)
(* C12 as stated: a due cycle of a name one of whose effective blocks      *)
(* holds an update provider setting with a configuration error ends        *)
(* reported as failed and with the NameState files unchanged.              *)
(***************************************************************************)
C12_ConfErrorAlwaysFatal ==
    [][DueCycleEnds /\ (BadBlock(v4_name_providers_conf) \/ BadBlock(v6_name_providers_conf))
         => outcome' = "failed" /\ stateFile' = stateFile]_vars

(***************************************************************************)
(* C12, amended. The update provider setting is looked at only when a      *)
(* pass found the address absent from the published list.  Then            *)
(* init_update_provider fails exactly on a setting with a configuration    *)
(* error; the cycle is over and reported as failed, the family's Update    *)
(* Provider is not called, no NameState file has changed, and the loop     *)
(* goes on: run returns only after the last entry, and with Ok.  A pass    *)
(* that finds the address published never looks at the setting.            *)
(***************************************************************************)
C12_ConfErrorFatalOnMismatch ==
    \A i \in DOMAIN calls :
        calls[i].op = "init_update" =>
            /\ Absent(calls[i].is_v6)
            /\ (calls[i].res = "err" <=> ConfError(calls[i].arg[1]))
            /\ (ConfError(calls[i].arg[1]) =>
                   /\ i = Len(calls)
                   /\ CycleOver
                   /\ outcome = "failed"
                   /\ ~Made("update", calls[i].is_v6)
                   /\ stateFile = before
                   /\ (pc = "idle" => child = NumEntries + 1 /\ exit_status = Some(0)))

C12_Witness ==
    /\ CycleOver
    /\ CycleEntry = 1
    /\ IsState(PriorFile)
    /\ ChangedBy(FALSE)
    /\ \E i \in DOMAIN calls :
         /\ calls[i].op = "init_update"
         /\ calls[i].is_v6
         /\ UnsupportedMethod(calls[i].arg[1])

(***************************************************************************)
(* C13. Exit status: the process has exited with 1 only when run returned  *)
(* before the loop started (no entry was visited, no cycle ran); while the *)
(* loop runs nothing has set an exit status; run returns only after the    *)
(* last entry and then with Ok (exit 0), whatever the cycles logged.       *)
(***************************************************************************)
C13_ExitStatus ==
    /\ exit_status \in {None, Some(0), Some(1)}
    /\ (exit_status = Some(1) => pc = "idle" /\ child = 0 /\ calls = << >>)
    /\ (pc # "idle" => exit_status = None)
    /\ (pc = "idle" /\ child > 0 => exit_status = Some(0) /\ child = NumEntries + 1)

C13_Witness ==
    /\ exit_status = Some(0)
    /\ outcome = "failed"
    /\ ProviderError
    /\ stateFile[1] = before[1]
    /\ before[1] = NoFile

(***************************************************************************)
(* C14. Retry across invocations: for an entry whose last cycle was due    *)
(* and failed, the NameState file is still one that read_state finds due,  *)
(* at the clock of the failure and at every later clock, whatever the      *)
(* interval and the blocks of the configuration; the entry's next cycle    *)
(* that reaches read_state goes on as a due cycle: it holds a fresh        *)
(* NameState and starts with the Query Provider of the first family the    *)
(* configuration enables (with the write when it enables none).            *)
(***************************************************************************)
StillDue ==
    \A e \in failed_due :
        \A interval \in Intervals :
            LET conf == [name |-> ConfiguredName(e), renew_interval |-> interval]
            IN  /\ read_state(stateFile[e], conf).ok
                /\ read_state(stateFile[e], conf).v # None

RetriedAsDue ==
    pc = "read_state" /\ pc' # "read_state" /\ child \in failed_due =>
        /\ name_state' = Some(NameState_new(ConfiguredName(child),
                                            now + Unwrap(name_conf).renew_interval))
        /\ IF IsSome(v4_name_providers_conf') \/ IsSome(v6_name_providers_conf')
           THEN pc' = "query" /\ (is_v6' <=> ~IsSome(v4_name_providers_conf'))
           ELSE pc' = "write"

C14_RetryAcrossInvocations == []StillDue /\ [][RetriedAsDue]_vars

C14_Witness ==
    /\ pc = "read_state"
    /\ child = 1
    /\ child \in failed_due
    /\ IsState(stateFile[child])
    /\ stateFile[child].state.name = ConfiguredName(child)
    /\ stateFile[child].state.next = now
    /\ now > 0
    /\ IsSome(Unwrap(name_conf).v4)
    /\ Unwrap(Unwrap(name_conf).v4).enabled

(***************************************************************************)
(* The resolver client, dns.rs 84-187.                                     *)
(*                                                                         *)
(* MaxAddrs bounds the number of socket addresses the name server host     *)
(* resolves to.                                                            *)
(***************************************************************************)
MaxAddrs == 3

SocketAddrs == {"192.0.2.53", "198.51.100.53", "2001:db8::53"}
is_ipv6(addr) == addr = "2001:db8::53"
is_ipv4(addr) == ~is_ipv6(addr)

(***************************************************************************)
(* The names a query is made for.  "a..example" stands for the names       *)
(* Name::from_str rejects (line 134).                                      *)
(***************************************************************************)
QueryNames == {"a.example", "b.example", "a..example"}
Name_from_str(n) == IF n = "a..example" THEN [ok |-> FALSE] ELSE [ok |-> TRUE, v |-> n]

ResolvedLists ==
    {l \in UNION {[1..n -> SocketAddrs] : n \in 0..MaxAddrs} :
        \A i, j \in DOMAIN l : i # j => l[i] # l[j]}

(***************************************************************************)
(* do_query 120-126: the filter on the resolved addresses; is_via_v6 is    *)
(* an Option<bool>.                                                        *)
(***************************************************************************)
Keeps(is_via_v6, addr) ==
    CASE is_via_v6 = Some(TRUE) -> is_ipv6(addr)
      [] is_via_v6 = Some(FALSE) -> is_ipv4(addr)
      [] OTHER -> TRUE

RECURSIVE FilterAddrs(_, _)
FilterAddrs(l, is_via_v6) ==
    IF l = << >> THEN << >>
    ELSE IF Keeps(is_via_v6, Head(l))
        THEN <<Head(l)>> \o FilterAddrs(Tail(l), is_via_v6)
    ELSE FilterAddrs(Tail(l), is_via_v6)

(***************************************************************************)
(* The values new and do_query return.                                     *)
(***************************************************************************)
UdpWithTls == [ok |-> FALSE, error |-> "no support of udp with tls"]
ResolveError == [ok |-> FALSE, error |-> "to_socket_addrs"]
NameError == [ok |-> FALSE, error |-> "Name::from_str"]
FailedToResolve(n) == [ok |-> FALSE, error |-> "failed to resolve name", name |-> n]
EmptyMessage == [from |-> None, answers |-> {}]
ResponseOk(response) == [ok |-> TRUE, v |-> response]

(***************************************************************************)
(* DnsClient::new, dns.rs 93-110.                                          *)
(***************************************************************************)
DnsClient_new_unchecked ==
    /\ dns_pc = "new"
    /\ \E is_udp \in BOOLEAN, is_tls \in BOOLEAN :
         /\ flags' = Some([is_udp |-> is_udp, is_tls |-> is_tls])
         /\ client' = Some([is_udp |-> is_udp, is_tls |-> is_tls])
         /\ dns_pc' = "client"
         /\ UNCHANGED dns_result
    /\ caller' = None
    /\ UNCHANGED <<request, socket_addrs, addrs, has_tried, attempts>>
    /\ UNCHANGED beside_resolver

DnsClient_new ==
    /\ dns_pc = "new"
    /\ \E is_udp \in BOOLEAN, is_tls \in BOOLEAN :
         /\ flags' = Some([is_udp |-> is_udp, is_tls |-> is_tls])
         /\ IF is_udp /\ is_tls
            THEN /\ dns_result' = Some(UdpWithTls)
                 /\ dns_pc' = "done"
                 /\ UNCHANGED client
            ELSE /\ client' = Some([is_udp |-> is_udp, is_tls |-> is_tls])
                 /\ dns_pc' = "client"
                 /\ UNCHANGED dns_result
    /\ caller' = None
    /\ UNCHANGED <<request, socket_addrs, addrs, has_tried, attempts>>
    /\ UNCHANGED beside_resolver

(***************************************************************************)
(* The providers that build a client: the Dns Query Provider, whose        *)
(* use_tcp is unset, false or true in the configuration and false when     *)
(* unset (query.rs 242-247), the Dot Query Provider and the SslipIo        *)
(* Address Provider.  NewFlags are the is_udp and is_tls they pass to      *)
(* DnsClient::new (query.rs 86-98, 190-201 and 214; ip.rs 67-73).          *)
(***************************************************************************)
Dns(use_tcp) == [variant |-> "Dns", use_tcp |-> use_tcp]
Dot == [variant |-> "Dot"]
SslipIo == [variant |-> "SslipIo"]

ResolverCallers == {Dns(u) : u \in {None, Some(FALSE), Some(TRUE)}} \cup {Dot, SslipIo}

unwrap_or(o, default) == IF o = None THEN default ELSE Unwrap(o)

NewFlags(p) ==
    CASE p.variant = "Dns" ->
            [is_udp |-> ~unwrap_or(p.use_tcp, FALSE), is_tls |-> FALSE]
      [] p.variant = "Dot" -> [is_udp |-> FALSE, is_tls |-> TRUE]
      [] p.variant = "SslipIo" -> [is_udp |-> TRUE, is_tls |-> FALSE]

ProviderClient ==
    /\ dns_pc = "new"
    /\ \E p \in ResolverCallers :
         /\ caller' = Some(p)
         /\ flags' = Some(NewFlags(p))
         /\ IF NewFlags(p).is_udp /\ NewFlags(p).is_tls
            THEN /\ dns_result' = Some(UdpWithTls)
                 /\ dns_pc' = "done"
                 /\ UNCHANGED client
            ELSE /\ client' = Some(NewFlags(p))
                 /\ dns_pc' = "client"
                 /\ UNCHANGED dns_result
    /\ UNCHANGED <<request, socket_addrs, addrs, has_tried, attempts>>
    /\ UNCHANGED beside_resolver

(***************************************************************************)
(* do_query 119-139: the host is resolved, the addresses are filtered, the *)
(* request is built.  to_socket_addrs and Name::from_str can fail.         *)
(***************************************************************************)
do_query ==
    /\ dns_pc = "client"
    /\ \E n \in QueryNames, is_via_v6 \in {None, Some(TRUE), Some(FALSE)},
          resolved \in {None} \cup {Some(l) : l \in ResolvedLists} :
         /\ request' = Some([name |-> n, is_via_v6 |-> is_via_v6])
         /\ socket_addrs' = resolved
         /\ has_tried' = FALSE
         /\ attempts' = << >>
         /\ IF resolved = None
            THEN /\ dns_result' = Some(ResolveError)
                 /\ dns_pc' = "done"
                 /\ addrs' = << >>
            ELSE IF ~Name_from_str(n).ok
            THEN /\ dns_result' = Some(NameError)
                 /\ dns_pc' = "done"
                 /\ addrs' = << >>
            ELSE /\ dns_result' = None
                 /\ dns_pc' = "loop"
                 /\ addrs' = FilterAddrs(Unwrap(resolved), is_via_v6)
    /\ UNCHANGED <<caller, client, flags>>
    /\ UNCHANGED beside_resolver

(***************************************************************************)
(* do_query 140-161: one pass of the loop.  The transport is TLS when      *)
(* is_tls, else UDP when is_udp, else TCP; its answer is an input: a       *)
(* response, an error or a timeout.                                        *)
(***************************************************************************)
TransportFallback == IF Unwrap(client).is_tls THEN "tls"
                     ELSE IF Unwrap(client).is_udp /\ attempts = << >> THEN "udp" ELSE "tcp"

Transport == IF Unwrap(client).is_tls THEN "tls"
             ELSE IF Unwrap(client).is_udp THEN "udp" ELSE "tcp"

AttemptOutcomes == {"ok", "error", "timeout"}

Attempted(addr, ended, response) ==
    [addr |-> addr, via |-> Transport, ended |-> ended, response |-> response]

AttemptStopOnError ==
    /\ dns_pc = "loop"
    /\ addrs # << >>
    /\ has_tried' = TRUE
    /\ \E ended \in AttemptOutcomes, answers \in SUBSET {"record"} :
         LET response == [from |-> Some(Head(addrs)), answers |-> answers]
         IN  IF ended = "ok"
             THEN /\ attempts' = Append(attempts, Attempted(Head(addrs), ended, Some(response)))
                  /\ dns_result' = Some(ResponseOk(response))
                  /\ dns_pc' = "done"
                  /\ UNCHANGED addrs
             ELSE /\ answers = {}
                  /\ attempts' = Append(attempts, Attempted(Head(addrs), ended, None))
                  /\ dns_result' = Some(FailedToResolve(Unwrap(request).name))
                  /\ dns_pc' = "done"
                  /\ UNCHANGED addrs
    /\ UNCHANGED <<caller, client, flags, request, socket_addrs>>
    /\ UNCHANGED beside_resolver

Attempt ==
    /\ dns_pc = "loop"
    /\ addrs # << >>
    /\ has_tried' = TRUE
    /\ \E ended \in AttemptOutcomes, answers \in SUBSET {"record"} :
         LET response == [from |-> Some(Head(addrs)), answers |-> answers]
         IN  IF ended = "ok"
             THEN /\ attempts' = Append(attempts, Attempted(Head(addrs), ended, Some(response)))
                  /\ dns_result' = Some(ResponseOk(response))
                  /\ dns_pc' = "done"
                  /\ UNCHANGED addrs
             ELSE /\ answers = {}
                  /\ attempts' = Append(attempts, Attempted(Head(addrs), ended, None))
                  /\ addrs' = Tail(addrs)
                  /\ UNCHANGED <<dns_result, dns_pc>>
    /\ UNCHANGED <<caller, client, flags, request, socket_addrs>>
    /\ UNCHANGED beside_resolver

(***************************************************************************)
(* do_query 163-166: the loop is over without a response.                  *)
(***************************************************************************)
AfterLoopEmpty == ResponseOk(EmptyMessage)

AfterLoopBail == FailedToResolve(Unwrap(request).name)

AfterLoop == IF has_tried THEN FailedToResolve(Unwrap(request).name)
             ELSE ResponseOk(EmptyMessage)

LoopOver ==
    /\ dns_pc = "loop"
    /\ addrs = << >>
    /\ dns_result' = Some(AfterLoop)
    /\ dns_pc' = "done"
    /\ UNCHANGED <<caller, client, flags, request, socket_addrs, addrs, has_tried, attempts>>
    /\ UNCHANGED beside_resolver

(***************************************************************************)
(* After a call has returned the caller drops the client (query.rs 214-    *)
(* 220, ip.rs 67-74 build one client for every query).                     *)
(***************************************************************************)
DropClient ==
    /\ dns_pc = "done"
    /\ dns_pc' = "new"
    /\ caller' = None
    /\ client' = None
    /\ flags' = None
    /\ request' = None
    /\ socket_addrs' = None
    /\ addrs' = << >>
    /\ has_tried' = FALSE
    /\ attempts' = << >>
    /\ dns_result' = None
    /\ UNCHANGED beside_resolver

InitDns ==
    /\ NotStarted([e \in Entries |-> NoFile], FALSE)
    /\ NoResolver
    /\ NoCloudflare
    /\ NoCall

NextDns ==
    \/ DnsClient_new
    \/ ProviderClient
    \/ do_query
    \/ Attempt
    \/ LoopOver
    \/ DropClient

SpecDns == InitDns /\ [][NextDns]_vars

(***************************************************************************)
(* Reading a do_query call: the candidates are the resolved addresses of   *)
(* the wanted family, in the order of the resolution.                      *)
(***************************************************************************)
InCall == IsSome(request) /\ IsSome(socket_addrs)

Wanted(addr) ==
    \/ Unwrap(request).is_via_v6 = None
    \/ Unwrap(request).is_via_v6 = Some(is_ipv6(addr))

Candidates == SelectSeq(Unwrap(socket_addrs), LAMBDA addr : Wanted(addr))

Failed(i) == attempts[i].ended \in {"error", "timeout"}

AllFailed == \A i \in DOMAIN attempts : Failed(i)

Returned == dns_pc = "done" /\ IsSome(dns_result)

(***************************************************************************)
(* C15. Resolver fallback order: the attempts of a call are made on the    *)
(* candidates in their order, one each; every attempt before the last one  *)
(* failed (with an error or a timeout); after a failed attempt the loop is *)
(* at the next candidate, and the call gives up only when every candidate  *)
(* was attempted; an attempt that succeeds is the last one, and the call   *)
(* returns its response.                                                   *)
(***************************************************************************)
C15_FallbackOrder ==
    InCall =>
        /\ Len(attempts) <= Len(Candidates)
        /\ \A i \in DOMAIN attempts :
             /\ attempts[i].addr = Candidates[i]
             /\ (i < Len(attempts) => Failed(i))
             /\ (~Failed(i) =>
                    /\ Returned
                    /\ dns_result = Some(ResponseOk(Unwrap(attempts[i].response))))
        /\ (dns_pc = "loop" =>
               /\ AllFailed
               /\ addrs = SubSeq(Candidates, Len(attempts) + 1, Len(Candidates)))
        /\ (Returned /\ attempts # << >> /\ AllFailed => Len(attempts) = Len(Candidates))
        /\ (Returned /\ attempts # << >> /\ Unwrap(dns_result).ok => ~AllFailed)

C15_Witness ==
    /\ InCall
    /\ Returned
    /\ Unwrap(request).is_via_v6 = Some(FALSE)
    /\ Len(Unwrap(socket_addrs)) = 3
    /\ is_ipv6(Unwrap(socket_addrs)[1])
    /\ Len(attempts) = 2
    /\ attempts[1].ended = "timeout"
    /\ attempts[2].ended = "ok"
    /\ Unwrap(dns_result).ok

(***************************************************************************)
(* C16. Resolution exhausted: a call that has returned after at least one  *)
(* attempt, all of them failed, returned the error that names the query    *)
(* target, never a response.                                               *)
(***************************************************************************)
C16_ResolutionExhausted ==
    Returned /\ attempts # << >> /\ AllFailed =>
        /\ ~Unwrap(dns_result).ok
        /\ dns_result = Some([ok |-> FALSE, error |-> "failed to resolve name",
                               name |-> Unwrap(request).name])

C16_Witness ==
    /\ InCall
    /\ Returned
    /\ Len(attempts) = 2
    /\ attempts[1].ended = "error"
    /\ attempts[2].ended = "timeout"
    /\ Unwrap(request).name = "b.example"

(***************************************************************************)
(* C17 as stated: a call whose filter left no candidate has, when it has   *)
(* returned, made no attempt and returned the empty response.              *)
(***************************************************************************)
C17_EmptyFilterSucceeds ==
    InCall /\ Candidates = << >> /\ Returned =>
        /\ attempts = << >>
        /\ dns_result = Some([ok |-> TRUE, v |-> [from |-> None, answers |-> {}]])

(***************************************************************************)
(* C17, amended. Empty-filter asymmetry: a call whose filter left no       *)
(* candidate makes no attempt; when the name of the query is one           *)
(* Name::from_str accepts, it returns the empty response; when it is not,  *)
(* it returns the error of Name::from_str.                                 *)
(***************************************************************************)
C17_EmptyFilterAsymmetry ==
    InCall /\ Candidates = << >> =>
        /\ attempts = << >>
        /\ ~has_tried
        /\ (Returned =>
               dns_result = IF Unwrap(request).name = "a..example"
                            THEN Some([ok |-> FALSE, error |-> "Name::from_str"])
                            ELSE Some([ok |-> TRUE, v |-> [from |-> None, answers |-> {}]]))

C17_Witness ==
    /\ InCall
    /\ Returned
    /\ Unwrap(request).is_via_v6 = Some(TRUE)
    /\ Len(Unwrap(socket_addrs)) = 2
    /\ Unwrap(dns_result).ok
    /\ attempts = << >>

(***************************************************************************)
(* C18. Invalid transport combination: DnsClient::new called with is_udp   *)
(* and is_tls returns the error at once: no client exists, no host was     *)
(* resolved, no query was made.  Called with any other flags it returns    *)
(* the client with these flags.                                            *)
(***************************************************************************)
C18_InvalidTransport ==
    IsSome(flags) =>
        IF Unwrap(flags).is_udp /\ Unwrap(flags).is_tls
        THEN /\ client = None
             /\ dns_pc = "done"
             /\ dns_result = Some([ok |-> FALSE, error |-> "no support of udp with tls"])
             /\ request = None
             /\ socket_addrs = None
             /\ attempts = << >>
        ELSE /\ client = flags
             /\ dns_result # Some([ok |-> FALSE, error |-> "no support of udp with tls"])

C18_Witness ==
    /\ IsSome(flags)
    /\ Unwrap(flags).is_udp
    /\ Unwrap(flags).is_tls
    /\ dns_pc = "done"

(***************************************************************************)
(***************************************************************************)
(* The Cloudflare update provider, update.rs 97-300.                       *)
(*                                                                         *)
(* MaxRecords bounds the number of records the API lists for one name and  *)
(* record type ("It should be contain zero or one record", line 211).      *)
(***************************************************************************)
MaxRecords == 1

(***************************************************************************)
(* std::net::IpAddr values, and what to_string writes for them: the        *)
(* canonical text.  Contents are the texts a record of the zone may hold;  *)
(* "2001:0db8::1" is another spelling of the address to_string writes as   *)
(* "2001:db8::1".                                                          *)
(***************************************************************************)
CfIpAddrs == [v6 : BOOLEAN, host : {1, 2}]
ip_is_ipv6(ip_addr) == ip_addr.v6
ip_to_string(ip_addr) ==
    CASE ~ip_addr.v6 /\ ip_addr.host = 1 -> "192.0.2.1"
      [] ~ip_addr.v6 /\ ip_addr.host = 2 -> "192.0.2.2"
      [] ip_addr.v6 /\ ip_addr.host = 1 -> "2001:db8::1"
      [] ip_addr.v6 /\ ip_addr.host = 2 -> "2001:db8::2"
Contents == {ip_to_string(ip_addr) : ip_addr \in CfIpAddrs} \cup {"2001:0db8::1"}

CfNames == {"a.example"}
Ttls == {1, 300}
Comments == {None, Some("dns-renew")}
RecordIds == {None, Some("id-1")}

(***************************************************************************)
(* record_type, lines 169-175.                                             *)
(***************************************************************************)
record_type(v6) == IF v6 THEN "AAAA" ELSE "A"

(***************************************************************************)
(* DnsRecord, lines 110-120.  RecordsFor are the records a listing for the *)
(* given name and record type holds.                                       *)
(***************************************************************************)
DnsRecord(comment, record_name, proxied, ttl, content, type, id) ==
    [comment |-> comment, name |-> record_name, proxied |-> proxied, ttl |-> ttl,
     content |-> content, record_type |-> type, id |-> id]

RecordsFor(record_name, type) ==
    {DnsRecord(c, record_name, p, t, a, type, i) :
        c \in Comments, p \in BOOLEAN, t \in Ttls, a \in Contents, i \in RecordIds}

Listings(record_name, type) ==
    UNION {[1..n -> RecordsFor(record_name, type)] : n \in 0..MaxRecords}

(***************************************************************************)
(* CloudflareUpdateProvider, lines 155-161 (token and zone_id take no part *)
(* in a decision).                                                         *)
(***************************************************************************)
CloudflareUpdateProvider ==
    [proxied : BOOLEAN, ttl : {None, Some(300), Some(600)}, comment : Comments]

(***************************************************************************)
(* Vec::pop (line 212): the last record of the listing, if any.            *)
(***************************************************************************)
pop(result) == IF result = << >> THEN None ELSE Some(result[Len(result)])

(***************************************************************************)
(* The requests sent: GET with the query parameters (205-208), POST with   *)
(* the new record (232-236), PUT to the record's id with the changed       *)
(* record (264-268).                                                       *)
(***************************************************************************)
Get(record_name, type) == [method |-> "GET", name |-> record_name, record_type |-> type]
Post(dns_record) == [method |-> "POST", body |-> dns_record]
Put(id, dns_record) == [method |-> "PUT", dns_record_id |-> id, body |-> dns_record]

(***************************************************************************)
(* What comes back for a request.  NotSent: send() failed (line 182).      *)
(* Otherwise a status and a body; Garbage is a body that cannot be read or *)
(* does not deserialise as a DnsResponse (185, 191), Envelope one that     *)
(* does, with its success flag and its result.                             *)
(***************************************************************************)
HttpStatuses == {200, 304, 403, 500}
NotSent == [sent |-> FALSE]
Garbage == [parsed |-> FALSE]
Envelope(success, result) == [parsed |-> TRUE, success |-> success, result |-> result]
Received(status, body) == [sent |-> TRUE, status |-> status, body |-> body]
Exchanges(results) ==
    {NotSent} \cup
    {Received(st, b) : st \in HttpStatuses,
                      b \in {Garbage} \cup {Envelope(FALSE, << >>)}
                              \cup {Envelope(TRUE, r) : r \in results}}

(***************************************************************************)
(* reqwest's Response::error_for_status: an error for the client error     *)
(* statuses (400-499) and the server error statuses (500-599), and for no  *)
(* other status.                                                           *)
(***************************************************************************)
is_client_error(status) == status \in 400..499
is_server_error(status) == status \in 500..599
error_for_status(status) == is_client_error(status) \/ is_server_error(status)

(***************************************************************************)
(* call, lines 177-196: the result of the envelope, or an error.           *)
(***************************************************************************)
call_ignoring_success(x) ==
    IF ~x.sent THEN Err
    ELSE IF error_for_status(x.status) THEN Err
    ELSE IF ~x.body.parsed THEN Err
    ELSE Ok(x.body.result)

call(x) ==
    IF ~x.sent THEN Err
    ELSE IF error_for_status(x.status) THEN Err
    ELSE IF ~x.body.parsed THEN Err
    ELSE IF ~x.body.success THEN Err
    ELSE Ok(x.body.result)

(***************************************************************************)
(* The condition of lines 281-288: the desired values differ from the old  *)
(* record's.                                                               *)
(***************************************************************************)
differs_ttl_always(self, old, ip_addr) ==
    \/ old.content # ip_to_string(ip_addr)
    \/ old.proxied # self.proxied
    \/ (IF IsSome(self.ttl) THEN Unwrap(self.ttl) # old.ttl ELSE FALSE)
    \/ self.comment # old.comment

differs(self, old, ip_addr) ==
    \/ old.content # ip_to_string(ip_addr)
    \/ old.proxied # self.proxied
    \/ (IF IsSome(self.ttl)
        THEN ~self.proxied /\ Unwrap(self.ttl) # old.ttl
        ELSE FALSE)
    \/ self.comment # old.comment

(***************************************************************************)
(* The record create posts, lines 222-230.                                 *)
(***************************************************************************)
Created(self, record_name, ip_addr) ==
    DnsRecord(self.comment, record_name, self.proxied,
              IF IsSome(self.ttl) THEN Unwrap(self.ttl) ELSE 300,
              ip_to_string(ip_addr), record_type(ip_is_ipv6(ip_addr)), None)

(***************************************************************************)
(* The record update puts, lines 244-262: the id is taken out, proxied,    *)
(* content and comment are overwritten, ttl only when not proxied and      *)
(* configured.                                                             *)
(***************************************************************************)
Merged(self, old, ip_addr) ==
    [old EXCEPT !.id = None,
                !.proxied = self.proxied,
                !.content = ip_to_string(ip_addr),
                !.ttl = IF ~self.proxied /\ IsSome(self.ttl)
                        THEN Unwrap(self.ttl) ELSE @,
                !.comment = self.comment]

(***************************************************************************)
(* update, line 279: self.query(name, ip.is_ipv6())?, lines 198-213.  The  *)
(* call (177-196) fails, or lists the records of the name and type.        *)
(***************************************************************************)
Cloudflare_query ==
    /\ cf_pc = "idle"
    /\ \E self \in CloudflareUpdateProvider, record_name \in CfNames, ip_addr \in CfIpAddrs :
         LET type == record_type(ip_is_ipv6(ip_addr)) IN
         /\ cf_self' = Some(self)
         /\ cf_args' = Some([name |-> record_name, ip |-> ip_addr])
         /\ cf_requests' = <<Get(record_name, type)>>
         /\ \E x \in Exchanges(Listings(record_name, type)) :
              /\ cf_responses' = <<x>>
              /\ IF call(x).ok
                 THEN /\ cf_old' = Some(pop(call(x).v))
                      /\ cf_pc' = "queried"
                      /\ cf_result' = None
                 ELSE /\ cf_old' = None
                      /\ cf_pc' = "done"
                      /\ cf_result' = Some(Err)
    /\ UNCHANGED beside_cloudflare

(***************************************************************************)
(* update, line 295 and 297: None => self.create(name, ip)?, Ok(true).     *)
(***************************************************************************)
Cloudflare_create ==
    /\ cf_pc = "queried"
    /\ Unwrap(cf_old) = None
    /\ cf_requests' = Append(cf_requests,
                             Post(Created(Unwrap(cf_self), Unwrap(cf_args).name,
                                          Unwrap(cf_args).ip)))
    /\ \E x \in Exchanges({<<"record">>}) :
         /\ cf_responses' = Append(cf_responses, x)
         /\ cf_result' = Some(IF call(x).ok THEN Ok(TRUE) ELSE Err)
    /\ cf_pc' = "done"
    /\ UNCHANGED <<cf_self, cf_args, cf_old>>
    /\ UNCHANGED beside_cloudflare

(***************************************************************************)
(* update, lines 280-290 and 297: the old record differs, so               *)
(* self.update(old, ip)? (242-273), which bails before any request when    *)
(* the old record has no id, then Ok(true).                                *)
(***************************************************************************)
Cloudflare_update_always ==
    /\ cf_pc = "queried"
    /\ IsSome(Unwrap(cf_old))
    /\ LET self == Unwrap(cf_self)
           old == Unwrap(Unwrap(cf_old))
           ip_addr == Unwrap(cf_args).ip
       IN IF old.id = None
          THEN /\ cf_requests' = cf_requests
               /\ cf_responses' = cf_responses
               /\ cf_result' = Some(Err)
          ELSE /\ cf_requests' = Append(cf_requests,
                                        Put(Unwrap(old.id), Merged(self, old, ip_addr)))
               /\ \E x \in Exchanges({<<"record">>}) :
                    /\ cf_responses' = Append(cf_responses, x)
                    /\ cf_result' = Some(IF call(x).ok THEN Ok(TRUE) ELSE Err)
    /\ cf_pc' = "done"
    /\ UNCHANGED <<cf_self, cf_args, cf_old>>
    /\ UNCHANGED beside_cloudflare

Cloudflare_update ==
    /\ cf_pc = "queried"
    /\ IsSome(Unwrap(cf_old))
    /\ LET self == Unwrap(cf_self)
           old == Unwrap(Unwrap(cf_old))
           ip_addr == Unwrap(cf_args).ip
       IN /\ differs(self, old, ip_addr)
          /\ IF old.id = None
             THEN /\ cf_requests' = cf_requests
                  /\ cf_responses' = cf_responses
                  /\ cf_result' = Some(Err)
             ELSE /\ cf_requests' = Append(cf_requests,
                                           Put(Unwrap(old.id), Merged(self, old, ip_addr)))
                  /\ \E x \in Exchanges({<<"record">>}) :
                       /\ cf_responses' = Append(cf_responses, x)
                       /\ cf_result' = Some(IF call(x).ok THEN Ok(TRUE) ELSE Err)
    /\ cf_pc' = "done"
    /\ UNCHANGED <<cf_self, cf_args, cf_old>>
    /\ UNCHANGED beside_cloudflare

(***************************************************************************)
(* update, lines 291-293: nothing differs, return Ok(false).               *)
(***************************************************************************)
Cloudflare_unchanged ==
    /\ cf_pc = "queried"
    /\ IsSome(Unwrap(cf_old))
    /\ ~differs(Unwrap(cf_self), Unwrap(Unwrap(cf_old)), Unwrap(cf_args).ip)
    /\ cf_result' = Some(Ok(FALSE))
    /\ cf_pc' = "done"
    /\ UNCHANGED <<cf_self, cf_args, cf_old, cf_requests, cf_responses>>
    /\ UNCHANGED beside_cloudflare

(***************************************************************************)
(* The caller takes the result (main.rs 234-237) and the provider is       *)
(* dropped.                                                                *)
(***************************************************************************)
DropProvider ==
    /\ cf_pc = "done"
    /\ cf_pc' = "idle"
    /\ cf_self' = None
    /\ cf_args' = None
    /\ cf_old' = None
    /\ cf_requests' = << >>
    /\ cf_responses' = << >>
    /\ cf_result' = None
    /\ UNCHANGED beside_cloudflare

InitCloudflare ==
    /\ NotStarted([e \in Entries |-> NoFile], FALSE)
    /\ NoResolver
    /\ NoCloudflare
    /\ NoCall

NextCloudflare ==
    \/ Cloudflare_query
    \/ Cloudflare_create
    \/ Cloudflare_update
    \/ Cloudflare_unchanged
    \/ DropProvider

SpecCloudflare == InitCloudflare /\ [][NextCloudflare]_vars

(***************************************************************************)
(* The vocabulary of the Cloudflare claims.  An update call has Answered   *)
(* when it returned after its query succeeded; Old is the record the query *)
(* found, Writes the requests after the query.  Differ says, field by      *)
(* field, that the old record is not what the provider wants: content,     *)
(* proxied or comment differ, or a ttl is configured, the provider is not  *)
(* proxied and the ttl differs.                                            *)
(***************************************************************************)
Answered == cf_pc = "done" /\ IsSome(cf_old)
Exists == IsSome(Unwrap(cf_old))
Old == Unwrap(Unwrap(cf_old))
Wanted_content == ip_to_string(Unwrap(cf_args).ip)
Writes == SubSeq(cf_requests, 2, Len(cf_requests))
QueriedFirst ==
    /\ Len(cf_requests) >= 1
    /\ cf_requests[1] = Get(Unwrap(cf_args).name,
                            record_type(ip_is_ipv6(Unwrap(cf_args).ip)))
    /\ \A i \in 1..Len(Writes) : Writes[i].method # "GET"
SameButTtl ==
    /\ Old.content = Wanted_content
    /\ Old.proxied = Unwrap(cf_self).proxied
    /\ Old.comment = Unwrap(cf_self).comment
TtlDiffers ==
    /\ IsSome(Unwrap(cf_self).ttl)
    /\ Unwrap(Unwrap(cf_self).ttl) # Old.ttl
Differ == ~SameButTtl \/ (TtlDiffers /\ ~Unwrap(cf_self).proxied)
OneCreate ==
    /\ Len(Writes) = 1
    /\ Writes[1].method = "POST"
    /\ Writes[1].body.content = Wanted_content
    /\ Writes[1].body.proxied = Unwrap(cf_self).proxied
    /\ Writes[1].body.comment = Unwrap(cf_self).comment
    /\ Writes[1].body.record_type = record_type(ip_is_ipv6(Unwrap(cf_args).ip))
    /\ Writes[1].body.ttl = (IF IsSome(Unwrap(cf_self).ttl)
                             THEN Unwrap(Unwrap(cf_self).ttl) ELSE 300)
OneUpdate ==
    /\ Len(Writes) = 1
    /\ Writes[1].method = "PUT"
    /\ Some(Writes[1].dns_record_id) = Old.id
    /\ Writes[1].body.content = Wanted_content
    /\ Writes[1].body.proxied = Unwrap(cf_self).proxied
    /\ Writes[1].body.comment = Unwrap(cf_self).comment
Changed == cf_result \in {Some(Ok(TRUE)), Some(Err)}

(***************************************************************************)
(* C19 as stated, read with every API call succeeding: the query comes     *)
(* first; with no record there is exactly one create and changed = true;   *)
(* with a record that differs there is exactly one update addressed to its *)
(* id and changed = true; with an identical record there is no write and   *)
(* changed = false.  Violated: a differing record that carries no id gets  *)
(* no update at all.                                                       *)
(***************************************************************************)
C19_ReadModifyWrite ==
    Answered =>
        /\ QueriedFirst
        /\ ~Exists => OneCreate /\ Changed
        /\ (Exists /\ Differ) => OneUpdate /\ Changed
        /\ (Exists /\ ~Differ) => Writes = << >> /\ cf_result = Some(Ok(FALSE))

(***************************************************************************)
(* C19: update(name, address) first queries the existing record.  If the   *)
(* query fails, nothing is written and the error is returned.  If no       *)
(* record exists, exactly one create is issued; if one exists and differs  *)
(* and carries an id, exactly one update addressed to that id is issued;   *)
(* in both cases changed = true is reported unless the call fails, and     *)
(* then the error.  If a differing record carries no id, no write is       *)
(* issued and an error is returned.  If the record is identical, no write  *)
(* is issued and changed = false is reported.                              *)
(***************************************************************************)
C19_ReadModifyWriteWithId ==
    /\ (cf_pc = "done" /\ ~IsSome(cf_old)) =>
           /\ cf_requests = <<Get(Unwrap(cf_args).name,
                                  record_type(ip_is_ipv6(Unwrap(cf_args).ip)))>>
           /\ cf_result = Some(Err)
    /\ Answered =>
        /\ QueriedFirst
        /\ ~Exists => OneCreate /\ Changed
        /\ (Exists /\ Differ /\ IsSome(Old.id)) => OneUpdate /\ Changed
        /\ (Exists /\ Differ /\ ~IsSome(Old.id)) =>
               Writes = << >> /\ cf_result = Some(Err)
        /\ (Exists /\ ~Differ) => Writes = << >> /\ cf_result = Some(Ok(FALSE))

C19_Witness ==
    /\ Answered
    /\ Exists
    /\ Differ
    /\ IsSome(Old.id)
    /\ OneUpdate
    /\ cf_result = Some(Ok(TRUE))

(***************************************************************************)
(* C20: when the provider is configured with proxied = true and the        *)
(* existing record has identical content, proxied and comment but a        *)
(* different ttl, no update call is issued and changed = false is          *)
(* reported.                                                               *)
(***************************************************************************)
C20_TtlExemption ==
    (/\ Answered
     /\ Exists
     /\ Unwrap(cf_self).proxied
     /\ SameButTtl
     /\ TtlDiffers)
    => Writes = << >> /\ cf_result = Some(Ok(FALSE))

C20_Witness ==
    /\ Answered
    /\ Exists
    /\ Unwrap(cf_self).proxied
    /\ SameButTtl
    /\ TtlDiffers
    /\ cf_requests = <<Get(Unwrap(cf_args).name, "A")>>
    /\ cf_result = Some(Ok(FALSE))

(***************************************************************************)
(* The vocabulary of the envelope claim.  The first call of an update is   *)
(* the list call: it failed when update has no answer of the query.  The   *)
(* second is the create or the update: it failed when update returned an   *)
(* error.                                                                  *)
(***************************************************************************)
CfReturned == cf_pc = "done" /\ IsSome(cf_result)
CallFailed(i) == IF i = 1 THEN ~IsSome(cf_old) ELSE cf_result = Some(Err)
Non2xx(x) == x.sent /\ x.status \notin 200..299
ErrorStatus(x) == x.sent /\ x.status \in 400..599
SuccessFalse(x) == x.sent /\ x.body.parsed /\ ~x.body.success
Unusable(x) == ~x.sent \/ ~x.body.parsed

MaxAnswers == 2

(***************************************************************************)
(* str::parse::<IpAddr> (and serde's IpAddr): the address a text denotes,  *)
(* or None.  "2001:0db8::1" denotes the address written "2001:db8::1".     *)
(* Texts are the texts an answer may carry.                                *)
(***************************************************************************)
parse_IpAddr(text) ==
    CASE text = "192.0.2.1" -> Some([v6 |-> FALSE, host |-> 1])
      [] text = "192.0.2.2" -> Some([v6 |-> FALSE, host |-> 2])
      [] text = "2001:db8::1" -> Some([v6 |-> TRUE, host |-> 1])
      [] text = "2001:0db8::1" -> Some([v6 |-> TRUE, host |-> 1])
      [] text = "2001:db8::2" -> Some([v6 |-> TRUE, host |-> 2])
      [] OTHER -> None

Texts == {"192.0.2.1", "2001:0db8::1", "target.example."}

SeqsUpTo(n, S) == UNION {[1..k -> S] : k \in 0..n}

(***************************************************************************)
(* The caller takes the result and the provider is dropped (main.rs        *)
(* 219-236).                                                               *)
(***************************************************************************)
DropCall ==
    /\ IsSome(pv_result)
    /\ pv_self' = None
    /\ pv_args' = None
    /\ pv_answer' = None
    /\ pv_result' = None
    /\ UNCHANGED beside_single_call

InitSingleCall ==
    /\ NotStarted([e \in Entries |-> NoFile], FALSE)
    /\ NoResolver
    /\ NoCloudflare
    /\ NoCall

(***************************************************************************)
(* DohGoogleQueryProvider, query.rs 15-70.  A body is Garbage (not JSON,   *)
(* or without Status) or a JSON object with a Status and an Answer that is *)
(* null or a list of objects with a data text.                             *)
(***************************************************************************)
DohStatuses == {0, 2, 3, 5}

DohJson(status, answer) == [parsed |-> TRUE, Status |-> status, Answer |-> answer]

DohBodies ==
    {Garbage} \cup
    {DohJson(st, a) : st \in DohStatuses,
                      a \in {None} \cup {Some(l) : l \in SeqsUpTo(MaxAnswers, Texts)}}

DohAnswers == {NotSent} \cup {Received(st, b) : st \in HttpStatuses, b \in DohBodies}

(***************************************************************************)
(* serde_json::from_slice::<DohGoogleResponse> (line 53): fails unless     *)
(* every data of the Answer is an address (DohGoogleAnswer.data: IpAddr,   *)
(* lines 32-35).                                                           *)
(***************************************************************************)
DohGoogleResponse_from_slice(body) ==
    IF ~body.parsed THEN Err
    ELSE IF body.Answer = None THEN Ok([status |-> body.Status, answer |-> None])
    ELSE IF \E i \in 1..Len(Unwrap(body.Answer)) :
                parse_IpAddr(Unwrap(body.Answer)[i]) = None
         THEN Err
    ELSE Ok([status |-> body.Status,
             answer |-> Some([i \in 1..Len(Unwrap(body.Answer)) |->
                                Unwrap(parse_IpAddr(Unwrap(body.Answer)[i]))])])

(***************************************************************************)
(* query, lines 42-69.                                                     *)
(***************************************************************************)
DohGoogle_status_only_zero(status) == status = 0

DohGoogle_status(status) == ~(status # 0 /\ status # 3)

DohGoogle_query(x) ==
    IF ~x.sent THEN Err
    ELSE IF error_for_status(x.status) THEN Err
    ELSE LET response == DohGoogleResponse_from_slice(x.body) IN
         IF ~response.ok THEN Err
         ELSE IF ~DohGoogle_status(response.v.status) THEN Err
         ELSE Ok(IF response.v.answer = None THEN << >>
                 ELSE Unwrap(response.v.answer))

DohGoogleQueryProvider_query ==
    /\ pv_self = None
    /\ \E v6 \in BOOLEAN, x \in DohAnswers :
         /\ pv_self' = Some([variant |-> "DohGoogle"])
         /\ pv_args' = Some([name |-> "a.example", is_v6 |-> v6])
         /\ pv_answer' = Some(x)
         /\ pv_result' = Some(DohGoogle_query(x))
    /\ UNCHANGED beside_single_call

NextDohGoogle ==
    \/ DohGoogleQueryProvider_query
    \/ DropCall

SpecDohGoogle == InitSingleCall /\ [][NextDohGoogle]_vars

(***************************************************************************)
(* The vocabulary of the DohGoogle claim: the call Got a JSON body with a  *)
(* Status under an HTTP status that is no error.                           *)
(***************************************************************************)
DohCalled ==
    /\ IsSome(pv_self)
    /\ Unwrap(pv_self).variant = "DohGoogle"
    /\ IsSome(pv_result)
Got ==
    /\ DohCalled
    /\ Unwrap(pv_answer).sent
    /\ Unwrap(pv_answer).status \notin 400..599
    /\ Unwrap(pv_answer).body.parsed
GotStatus == Unwrap(pv_answer).body.Status
GotAnswer == Unwrap(pv_answer).body.Answer
AllAddresses ==
    GotAnswer # None =>
        \A i \in 1..Len(Unwrap(GotAnswer)) : parse_IpAddr(Unwrap(GotAnswer)[i]) # None

(***************************************************************************)
(* C22 as stated: a response with Status 0 or 3 is a successful query, any *)
(* other Status a failure; with the Answer absent the result is the empty  *)
(* address set.  Violated: Status 0 with an Answer entry whose data is not *)
(* an address (a CNAME target) is a failure.                               *)
(***************************************************************************)
C22_DohGoogleStatus ==
    Got =>
        /\ Unwrap(pv_result).ok <=> GotStatus \in {0, 3}
        /\ (GotStatus \in {0, 3} /\ GotAnswer = None) => Unwrap(pv_result) = Ok(<< >>)

(***************************************************************************)
(* C22: a response all of whose Answer entries carry an address, or whose  *)
(* Answer is absent, is a successful query when its Status is 0 or 3 and a *)
(* failure with any other Status; a response with an Answer entry that is  *)
(* not an address is a failure whatever its Status.  A successful query    *)
(* yields the addresses of the Answer in order, and the empty list when    *)
(* the Answer is absent (null).                                            *)
(***************************************************************************)
C22_DohGoogleStatusOfAddresses ==
    /\ (DohCalled /\ ~Got) => ~Unwrap(pv_result).ok
    /\ Got =>
        /\ Unwrap(pv_result).ok <=> (GotStatus \in {0, 3} /\ AllAddresses)
        /\ (GotStatus \in {0, 3} /\ GotAnswer = None) => Unwrap(pv_result) = Ok(<< >>)
        /\ (Unwrap(pv_result).ok /\ GotAnswer # None) =>
               /\ Len(Unwrap(pv_result).v) = Len(Unwrap(GotAnswer))
               /\ \A i \in 1..Len(Unwrap(GotAnswer)) :
                    Some(Unwrap(pv_result).v[i]) = parse_IpAddr(Unwrap(GotAnswer)[i])

C22_Witness ==
    /\ Got
    /\ GotStatus = 3
    /\ GotAnswer = None
    /\ Unwrap(pv_result) = Ok(<< >>)

(***************************************************************************)
(***************************************************************************)
(* HttpGetUpdateProvider and HttpPlainBodyUpdateProvider, update.rs 7-95.  *)
(* Of the url_template and the body_template only whether strfmt can       *)
(* render them with name and ip matters (lines 30, 74); of the reply only  *)
(* the status is read.                                                     *)
(***************************************************************************)
Replied(status) == [sent |-> TRUE, status |-> status]

HttpReplies == {NotSent} \cup {Replied(st) : st \in HttpStatuses}

UpdateCredentials == {None, Some("HttpBasicAuth"), Some("HttpBearerToken")}

HttpGetUpdateProvider ==
    [variant : {"HttpGet"}, credential : UpdateCredentials, renders : BOOLEAN]

HttpPlainBodyUpdateProvider ==
    [variant : {"HttpPlainBody"}, credential : UpdateCredentials, renders : BOOLEAN,
     method : {"POST", "PUT", "PATCH"}]

(***************************************************************************)
(* req_builder.send()?.error_for_status()?; Ok(true)  (lines 43-44 and     *)
(* 91-92).                                                                 *)
(***************************************************************************)
send_unchecked(x) ==
    IF ~x.sent THEN Err ELSE Ok(TRUE)

send_error_for_status(x) ==
    IF ~x.sent THEN Err
    ELSE IF error_for_status(x.status) THEN Err
    ELSE Ok(TRUE)

(***************************************************************************)
(* HttpGetUpdateProvider::update, lines 25-45: the url is rendered, which  *)
(* may fail before anything is sent; then the one request.                 *)
(***************************************************************************)
HttpGetUpdateProvider_update ==
    /\ pv_self = None
    /\ \E self \in HttpGetUpdateProvider, ip_addr \in CfIpAddrs :
         /\ pv_self' = Some(self)
         /\ pv_args' = Some([name |-> "a.example", ip |-> ip_to_string(ip_addr)])
         /\ IF ~self.renders
            THEN /\ pv_answer' = None
                 /\ pv_result' = Some(Err)
            ELSE \E x \in HttpReplies :
                   /\ pv_answer' = Some(x)
                   /\ pv_result' = Some(send_error_for_status(x))
    /\ UNCHANGED beside_single_call

(***************************************************************************)
(* HttpPlainBodyUpdateProvider::update, lines 70-93: the body is rendered, *)
(* which may fail before anything is sent; then the one request.           *)
(***************************************************************************)
HttpPlainBodyUpdateProvider_update ==
    /\ pv_self = None
    /\ \E self \in HttpPlainBodyUpdateProvider, ip_addr \in CfIpAddrs :
         /\ pv_self' = Some(self)
         /\ pv_args' = Some([name |-> "a.example", ip |-> ip_to_string(ip_addr)])
         /\ IF ~self.renders
            THEN /\ pv_answer' = None
                 /\ pv_result' = Some(Err)
            ELSE \E x \in HttpReplies :
                   /\ pv_answer' = Some(x)
                   /\ pv_result' = Some(send_error_for_status(x))
    /\ UNCHANGED beside_single_call

NextHttpUpdate ==
    \/ HttpGetUpdateProvider_update
    \/ HttpPlainBodyUpdateProvider_update
    \/ DropCall

SpecHttpUpdate == InitSingleCall /\ [][NextHttpUpdate]_vars

(***************************************************************************)
(* The vocabulary of the HTTP update claim.                                *)
(***************************************************************************)
HttpUpdated ==
    /\ IsSome(pv_self)
    /\ Unwrap(pv_self).variant \in {"HttpGet", "HttpPlainBody"}
    /\ IsSome(pv_result)
Answered_status == Unwrap(pv_answer).status
NothingSent == pv_answer = None \/ ~Unwrap(pv_answer).sent

Static_query(literal, v6) ==
    IF v6 /\ ~ip_is_ipv6(literal) THEN Err
    ELSE IF ~v6 /\ ip_is_ipv6(literal) THEN Err
    ELSE Ok(literal)

StaticIpProvider_query ==
    /\ pv_self = None
    /\ \E literal \in CfIpAddrs, v6 \in BOOLEAN :
         /\ pv_self' = Some([variant |-> "Static", ip |-> literal])
         /\ pv_args' = Some([is_v6 |-> v6])
         /\ pv_answer' = None
         /\ pv_result' = Some(Static_query(literal, v6))
    /\ UNCHANGED beside_single_call

(***************************************************************************)
(* IfconfigIoIpProvider::query, lines 24-46.  The reply's body is a text,  *)
(* or cannot be read (text()?, line 33).  str::trim takes the white space  *)
(* off both ends.                                                          *)
(***************************************************************************)
BodyTexts == {" 192.0.2.1 ", "2001:db8::1", "192.0.2", ""}

Text(text) == [parsed |-> TRUE, text |-> text]

IfconfigIoAnswers ==
    {NotSent} \cup
    {Received(st, b) : st \in HttpStatuses,
                      b \in {Garbage} \cup {Text(t) : t \in BodyTexts}}

trim(text) == IF text = " 192.0.2.1 " THEN "192.0.2.1" ELSE text

IfconfigIo_query_no_family(x, v6) ==
    IF ~x.sent THEN Err
    ELSE IF error_for_status(x.status) THEN Err
    ELSE IF ~x.body.parsed THEN Err
    ELSE LET parsed == parse_IpAddr(trim(x.body.text)) IN
         IF parsed = None THEN Err
         ELSE Ok(Unwrap(parsed))

IfconfigIo_query(x, v6) ==
    IF ~x.sent THEN Err
    ELSE IF error_for_status(x.status) THEN Err
    ELSE IF ~x.body.parsed THEN Err
    ELSE LET parsed == parse_IpAddr(trim(x.body.text)) IN
         IF parsed = None THEN Err
         ELSE IF v6 /\ ~ip_is_ipv6(Unwrap(parsed)) THEN Err
         ELSE IF ~v6 /\ ip_is_ipv6(Unwrap(parsed)) THEN Err
         ELSE Ok(Unwrap(parsed))

IfconfigIoIpProvider_query ==
    /\ pv_self = None
    /\ \E v6 \in BOOLEAN, x \in IfconfigIoAnswers :
         /\ pv_self' = Some([variant |-> "IfconfigIo"])
         /\ pv_args' = Some([is_v6 |-> v6])
         /\ pv_answer' = Some(x)
         /\ pv_result' = Some(IfconfigIo_query(x, v6))
    /\ UNCHANGED beside_single_call

(***************************************************************************)
(* SslipIoIpProvider::query, lines 65-114.  The resolver call (66-74)      *)
(* fails or yields the answer records.  A record carries TXT data, whose   *)
(* bytes are valid UTF-8 or not, or data of another type, or no data.      *)
(* trim_matches('"') takes the quote characters off both ends.             *)
(***************************************************************************)
Txt(text) == [data |-> "TXT", utf8 |-> TRUE, text |-> text]
TxtNotUtf8 == [data |-> "TXT", utf8 |-> FALSE, text |-> ""]
NotTxt == [data |-> "A", utf8 |-> TRUE, text |-> ""]
NoData == [data |-> "none", utf8 |-> TRUE, text |-> ""]

AnswerRecords ==
    {Txt("\"192.0.2.1\""), Txt("2001:0db8::1"), Txt("\"sslip.io\""),
     TxtNotUtf8, NotTxt, NoData}

SslipIoAnswers == {Err} \cup {Ok(l) : l \in SeqsUpTo(MaxAnswers, AnswerRecords)}

trim_matches_quote(text) ==
    CASE text = "\"192.0.2.1\"" -> "192.0.2.1"
      [] text = "\"sslip.io\"" -> "sslip.io"
      [] OTHER -> text

(***************************************************************************)
(* The closure of filter_map, lines 76-106.                                *)
(***************************************************************************)
txt_ip(r) ==
    IF r.data = "none" THEN None
    ELSE IF r.data # "TXT" THEN None
    ELSE IF ~r.utf8 THEN None
    ELSE parse_IpAddr(trim_matches_quote(r.text))

(***************************************************************************)
(* ips.next(), lines 107-111: the first record the closure keeps.          *)
(***************************************************************************)
first_or_bail(answers) ==
    IF answers = << >> THEN Err
    ELSE IF txt_ip(Head(answers)) # None THEN Ok(Unwrap(txt_ip(Head(answers))))
    ELSE Err

RECURSIVE ips_next(_)
ips_next(answers) ==
    IF answers = << >> THEN Err
    ELSE IF txt_ip(Head(answers)) # None THEN Ok(Unwrap(txt_ip(Head(answers))))
    ELSE ips_next(Tail(answers))

SslipIo_query(x) == IF ~x.ok THEN Err ELSE ips_next(x.v)

SslipIoIpProvider_query ==
    /\ pv_self = None
    /\ \E v6 \in BOOLEAN, x \in SslipIoAnswers :
         /\ pv_self' = Some([variant |-> "SslipIo"])
         /\ pv_args' = Some([is_v6 |-> v6])
         /\ pv_answer' = Some(x)
         /\ pv_result' = Some(SslipIo_query(x))
    /\ UNCHANGED beside_single_call

NextIp ==
    \/ StaticIpProvider_query
    \/ IfconfigIoIpProvider_query
    \/ SslipIoIpProvider_query
    \/ DropCall

SpecIp == InitSingleCall /\ [][NextIp]_vars

(***************************************************************************)
(* The vocabulary of the Address Provider claims.                          *)
(***************************************************************************)
IpCalled(variant) ==
    /\ IsSome(pv_self)
    /\ Unwrap(pv_self).variant = variant
    /\ IsSome(pv_result)
Asked_v6 == Unwrap(pv_args).is_v6
FamilyOf(a) == IF a.v6 THEN "v6" ELSE "v4"
AskedFamily == IF Asked_v6 THEN "v6" ELSE "v4"
BodyAddress ==
    IF /\ Unwrap(pv_answer).sent
       /\ Unwrap(pv_answer).body.parsed
    THEN parse_IpAddr(trim(Unwrap(pv_answer).body.text))
    ELSE None

(***************************************************************************)
(* C24: Static and IfconfigIo never return an address of the wrong family: *)
(* Static returns the configured literal when its family matches is_v6 and *)
(* fails otherwise; IfconfigIo fails when the parsed address's family      *)
(* differs from is_v6 or when the body does not parse, and what it returns *)
(* is the address of the body.                                             *)
(***************************************************************************)
C24_NoWrongFamily ==
    /\ IpCalled("Static") =>
           Unwrap(pv_result) = IF FamilyOf(Unwrap(pv_self).ip) = AskedFamily
                               THEN Ok(Unwrap(pv_self).ip)
                               ELSE Err
    /\ IpCalled("IfconfigIo") =>
           /\ BodyAddress = None => Unwrap(pv_result) = Err
           /\ (BodyAddress # None /\ FamilyOf(Unwrap(BodyAddress)) # AskedFamily)
                  => Unwrap(pv_result) = Err
           /\ Unwrap(pv_result).ok =>
                  /\ Unwrap(pv_result).v = Unwrap(BodyAddress)
                  /\ FamilyOf(Unwrap(pv_result).v) = AskedFamily

C24_Witness ==
    /\ IpCalled("IfconfigIo")
    /\ ~Asked_v6
    /\ Unwrap(pv_answer).sent
    /\ Unwrap(pv_answer).status = 200
    /\ BodyAddress = Some([v6 |-> TRUE, host |-> 1])
    /\ Unwrap(pv_result) = Err

(***************************************************************************)
(* The vocabulary of the SslipIo claim: the answer records of the call     *)
(* (none when the resolver call failed), and whether the i-th Parses: it   *)
(* carries TXT data that is valid UTF-8 and, the quote characters around   *)
(* it taken off, an address literal.                                       *)
(***************************************************************************)
AnswerOrder ==
    IF Unwrap(pv_answer).ok THEN Unwrap(pv_answer).v ELSE << >>
Parses(i) ==
    /\ AnswerOrder[i].data = "TXT"
    /\ AnswerOrder[i].utf8
    /\ parse_IpAddr(trim_matches_quote(AnswerOrder[i].text)) # None
FirstParsing ==
    CHOOSE i \in 1..Len(AnswerOrder) : Parses(i) /\ \A j \in 1..(i - 1) : ~Parses(j)

(***************************************************************************)
(* C25: SslipIo answer records that are not valid UTF-8 or do not parse as *)
(* an address literal (after stripping surrounding quote characters) are   *)
(* skipped without failing the call; the call returns the first answer     *)
(* record, in answer order, that parses, and fails exactly when no answer  *)
(* record parses.                                                          *)
(***************************************************************************)
C25_SslipIoFirstParsing ==
    IpCalled("SslipIo") =>
        /\ Unwrap(pv_result).ok <=> \E i \in 1..Len(AnswerOrder) : Parses(i)
        /\ Unwrap(pv_result).ok =>
               Some(Unwrap(pv_result).v) =
                   parse_IpAddr(trim_matches_quote(AnswerOrder[FirstParsing].text))

C25_Witness ==
    /\ IpCalled("SslipIo")
    /\ Len(AnswerOrder) = 2
    /\ AnswerOrder[1] = TxtNotUtf8
    /\ AnswerOrder[2] = Txt("\"192.0.2.1\"")
    /\ Unwrap(pv_result) = Ok([v6 |-> FALSE, host |-> 1])

(***************************************************************************)
(* The transport the claim names for each provider.                        *)
(***************************************************************************)
TransportOf(p) ==
    CASE p = Dot -> "tls"
      [] p = Dns(Some(TRUE)) -> "tcp"
      [] p = Dns(Some(FALSE)) -> "udp"
      [] p = Dns(None) -> "udp"
      [] p = SslipIo -> "udp"

(***************************************************************************)
(* C26: within one resolver call every candidate attempt uses the same     *)
(* transport and there is no fallback between transports: TLS for the Dot  *)
(* provider, TCP for the Dns provider with use_tcp = true, UDP for the Dns *)
(* provider with use_tcp false or unset, and UDP for the SslipIo address   *)
(* provider.                                                               *)
(***************************************************************************)
C26_SingleTransport ==
    /\ \A i \in 1..Len(attempts), j \in 1..Len(attempts) :
         attempts[i].via = attempts[j].via
    /\ IsSome(caller) =>
         /\ dns_result # Some(UdpWithTls)
         /\ \A i \in 1..Len(attempts) : attempts[i].via = TransportOf(Unwrap(caller))

C26_Witness ==
    /\ caller = Some(Dns(Some(TRUE)))
    /\ dns_pc = "done"
    /\ Len(attempts) = 2
    /\ attempts[1].ended = "timeout"
    /\ attempts[1].via = "tcp"
    /\ attempts[2].ended = "ok"
    /\ attempts[2].via = "tcp"

(***************************************************************************)
(* The vocabulary of the ordering claim, over the operations of the        *)
(* cycle in the order they were made.                                      *)
(***************************************************************************)
Ops == 1..Len(calls)
IsProviderOp(i) == calls[i].op \in ProviderOps
OkBefore(op, v6, j) ==
    \E i \in 1..(j - 1) :
        calls[i].op = op /\ calls[i].is_v6 = v6 /\ calls[i].res # "err"
V4BeforeV6 ==
    \A i \in Ops, j \in Ops :
        (IsProviderOp(i) /\ IsProviderOp(j) /\ calls[i].is_v6 /\ ~calls[j].is_v6)
            => j < i
QueryThenAddressThenUpdate ==
    \A j \in Ops :
        /\ calls[j].op = "ip" => OkBefore("query", calls[j].is_v6, j)
        /\ calls[j].op \in {"init_update", "update"} =>
               /\ OkBefore("query", calls[j].is_v6, j)
               /\ OkBefore("ip", calls[j].is_v6, j)
FirstErrorEnds ==
    \A i \in Ops : calls[i].res = "err" => i = Len(calls)
PassFinished(v6) ==
    (\E i \in Ops : IsProviderOp(i) /\ calls[i].is_v6 = v6) =>
        /\ IsSome(compared[v6])
        /\ \/ Unwrap(compared[v6]).found
           \/ \E i \in Ops : /\ calls[i].op = "update"
                             /\ calls[i].is_v6 = v6
                             /\ calls[i].res # "err"
WriteLast ==
    \A j \in Ops :
        calls[j].op = "write" =>
            /\ j = Len(calls)
            /\ PassFinished(FALSE)
            /\ PassFinished(TRUE)

(***************************************************************************)
(* C27: for a due name the v4 family is processed completely before the    *)
(* v6 family; within a family the Query Provider is called before the      *)
(* Address Provider, and the Update Provider only after both returned      *)
(* successfully; the first error ends the cycle, so after a v4 error no v6 *)
(* provider is invoked, and the state write happens only after both        *)
(* families finished.                                                      *)
(***************************************************************************)
C27_CycleOrdering ==
    /\ V4BeforeV6
    /\ QueryThenAddressThenUpdate
    /\ FirstErrorEnds
    /\ WriteLast

C27_Witness ==
    /\ Len(calls) = 10
    /\ calls[4].op = "query" /\ ~calls[4].is_v6
    /\ calls[7].op = "update" /\ ~calls[7].is_v6
    /\ calls[8].op = "query" /\ calls[8].is_v6
    /\ calls[9].op = "ip" /\ calls[9].is_v6
    /\ calls[10].op = "write" /\ calls[10].res = "ok"

(***************************************************************************)
(***************************************************************************)
(* One invocation of the process, and one resolver call, under the         *)
(* assumption that every step that is begun returns: every network         *)
(* operation has a timeout (DEFAULT_TIMEOUT, Client::timeout, the          *)
(* resolver's timeout), and the program has one thread, so a step that can *)
(* be taken is taken.  The program has no concurrency: the resolver runs   *)
(* inside a provider call, never beside the loop of run, and the two are   *)
(* taken one at a time here: the resolver call before the process starts, *)
(* at clock 0 and with no NameState file, none of which it reads.  The     *)
(* clock and the start of the process are the environment's and are not    *)
(* forced; the clock is read only by read_state (main.rs 98-142), so its   *)
(* ticks are taken between two cycles.                                     *)
(***************************************************************************)
ResolverAlone ==
    /\ pc = "idle"
    /\ exit_status = None
    /\ now = 0
    /\ stateFile = [e \in Entries |-> NoFile]

ResolverIdle == dns_pc = "new"

TheInvocation ==
    /\ ResolverIdle
    /\ exit_status = None
    /\ StartInvocation

TickBetweenCycles ==
    /\ ResolverIdle
    /\ pc \in {"idle", "loop"}
    /\ Tick

NewClient == ResolverAlone /\ DnsClient_new

NewProviderClient == ResolverAlone /\ ProviderClient

ResolverQuery == ResolverAlone /\ do_query

ResolverAttempt == ResolverAlone /\ Attempt

ResolverLoopOver == ResolverAlone /\ LoopOver

ResolverDrop == ResolverAlone /\ DropClient

NextReturns ==
    \/ TheInvocation
    \/ RunReturn
    \/ ReadConf
    \/ ReadState
    \/ Query
    \/ Address
    \/ Compare
    \/ InitUpdate
    \/ Update
    \/ Write
    \/ TickBetweenCycles
    \/ NewClient
    \/ NewProviderClient
    \/ ResolverQuery
    \/ ResolverAttempt
    \/ ResolverLoopOver
    \/ ResolverDrop

CycleStep ==
    \/ RunReturn
    \/ ReadConf
    \/ ReadState
    \/ Query
    \/ Address
    \/ Compare
    \/ InitUpdate
    \/ Update
    \/ Write

EveryStepReturns == WF_vars(CycleStep)

(***************************************************************************)
(* The invocation starts with, for each entry, no NameState file or the    *)
(* NameState of the configured name that becomes due at clock 1.           *)
(***************************************************************************)
InitReturns ==
    /\ \E files \in [Entries -> {NoFile} \cup {FileOf(s) : s \in NameState}] :
         /\ \A e \in Entries :
              files[e] \in {NoFile, FileOf(NameState_new(ConfiguredName(e), 1))}
         /\ NotStarted(files, FALSE)
    /\ NoResolver
    /\ NoCloudflare
    /\ NoCall

SpecReturns == InitReturns /\ [][NextReturns]_vars /\ EveryStepReturns

(***************************************************************************)
(* The vocabulary of the termination claim.  The invocation ends after the *)
(* loop has gone over every entry; the loop leaves an entry only for the   *)
(* next one (EntryByEntry) and only with a terminal outcome logged         *)
(* (CycleEnds), so every cycle has ended when the invocation has.          *)
(***************************************************************************)
Terminal == {"renewed", "skipped", "failed"}
CycleEnds ==
    (pc # "idle" /\ child' # child) => outcome' \in Terminal
InvocationEnds ==
    (pc # "idle") ~> (pc = "idle" /\ child = NumEntries + 1 /\ exit_status = Some(0))
EntryByEntry ==
    (pc # "idle" /\ child' # child) => (child \in Entries /\ child' = child + 1)
OncePerFamily ==
    \A op \in ProviderOps, v6 \in BOOLEAN :
        Cardinality({i \in 1..Len(calls) : calls[i].op = op /\ calls[i].is_v6 = v6}) <= 1
CandidateOnce ==
    IsSome(socket_addrs) /\ IsSome(request) =>
        /\ Len(attempts) <= Len(Candidates)
        /\ \A i \in 1..Len(attempts) : attempts[i].addr = Candidates[i]

(***************************************************************************)
(* C28: assuming every provider call returns, every name's cycle           *)
(* eventually reaches one terminal outcome and the invocation eventually   *)
(* finishes having processed each directory entry exactly once, with each  *)
(* provider invoked at most once per family per name and each resolver     *)
(* candidate attempted at most once per call.                              *)
(***************************************************************************)
C28_Termination ==
    /\ InvocationEnds
    /\ [][CycleEnds]_vars
    /\ [][EntryByEntry]_vars
    /\ []OncePerFamily
    /\ []CandidateOnce

C28_Witness ==
    /\ pc = "idle"
    /\ child = NumEntries + 1
    /\ exit_status = Some(0)
    /\ outcome = "failed"
    /\ Len(calls) > 3

(***************************************************************************)
(* One pass of renew from the Address Provider on (main.rs 225-236): the   *)
(* address the provider returned is compared with the published set        *)
(* (229-233, the pass ends) or handed, unchanged, to the Update Provider   *)
(* (236), here the Cloudflare one, which derives the record type from the  *)
(* address (update.rs 279).  is_v6 is not an argument of update.           *)
(***************************************************************************)
PassIdle == cf_pc = "idle"

StaticPass == PassIdle /\ StaticIpProvider_query

IfconfigIoPass == PassIdle /\ IfconfigIoIpProvider_query

SslipIoPass == PassIdle /\ SslipIoIpProvider_query

RenewPublishedOrErr == PassIdle /\ DropCall

RenewUpdate ==
    /\ IsSome(pv_result)
    /\ Unwrap(pv_result).ok
    /\ Cloudflare_query
    /\ Unwrap(cf_args').ip = Unwrap(pv_result).v

RenewReturn ==
    /\ cf_pc = "done"
    /\ cf_pc' = "idle"
    /\ cf_self' = None
    /\ cf_args' = None
    /\ cf_old' = None
    /\ cf_requests' = << >>
    /\ cf_responses' = << >>
    /\ cf_result' = None
    /\ pv_self' = None
    /\ pv_args' = None
    /\ pv_answer' = None
    /\ pv_result' = None
    /\ UNCHANGED <<orchestrator, resolver>>

NextPass ==
    \/ StaticPass
    \/ IfconfigIoPass
    \/ SslipIoPass
    \/ RenewPublishedOrErr
    \/ RenewUpdate
    \/ Cloudflare_create
    \/ Cloudflare_update
    \/ Cloudflare_unchanged
    \/ RenewReturn

SpecPass == InitSingleCall /\ [][NextPass]_vars

(***************************************************************************)
(* The vocabulary of the family claim: the Update Provider has been        *)
(* invoked in the pass of the family the Address Provider was asked for.   *)
(***************************************************************************)
UpdateInvoked == IsSome(cf_args) /\ IsSome(pv_args)
PushedAddress == Unwrap(cf_args).ip
PassFamily == IF Unwrap(pv_args).is_v6 THEN "v6" ELSE "v4"

(***************************************************************************)
(* C29: whenever the Update Provider is invoked during the v4 pass the     *)
(* address passed to it is an IPv4 address, and during the v6 pass an IPv6 *)
(* address, whichever Address Provider variant (Static, IfconfigIo,        *)
(* SslipIo) produced it.                                                   *)
(***************************************************************************)
C29_FamilyConsistency ==
    UpdateInvoked => FamilyOf(PushedAddress) = PassFamily

(***************************************************************************)
(* The vocabulary of the partial-update claim: the cycle that has just     *)
(* ended pushed an update in its v4 pass (update returned Ok(true)) and a  *)
(* provider construction or call of its v6 pass returned an error.         *)
(***************************************************************************)
V6PassFailed ==
    \E i \in DOMAIN calls :
        calls[i].is_v6 /\ calls[i].op \in ProviderOps /\ calls[i].res = "err"
PartialThenFailed == CycleOver /\ ChangedBy(FALSE) /\ V6PassFailed
UpdateCalls(v6) == {i \in DOMAIN calls : calls[i].op = "update" /\ calls[i].is_v6 = v6}
NotUndone ==
    /\ Cardinality(UpdateCalls(FALSE)) = 1
    /\ \A i \in UpdateCalls(TRUE) : calls[i].res = "err"
    /\ calls[Len(calls)].res = "err"
    /\ calls[Len(calls)].is_v6
NothingPersisted ==
    /\ stateFile = before
    /\ \A i \in DOMAIN calls : calls[i].op # "write"
DueAtAnyClock(e) ==
    \A interval \in Intervals, clock \in now..MaxTime :
        LET file == stateFile[e]
        IN  \/ file = NoFile
            \/ /\ IsState(file)
               /\ (file.state.name # ConfiguredName(e) \/ file.state.next <= clock)
RerunsFromV4 ==
    (/\ pc = "read_state"
     /\ pc' # "read_state"
     /\ child \in failed_due
     /\ IsSome(EffectiveV4(Unwrap(name_conf)))) =>
        /\ pc' = "query"
        /\ is_v6' = FALSE
        /\ updated' = FALSE
        /\ calls'[Len(calls')].res = "ok"

(***************************************************************************)
(* C30: if the v4 pass of a due name pushes an update and the v6 pass then *)
(* fails, the cycle is reported failed, not renewed; no NameState is       *)
(* persisted; the v4 update is not undone (the cycle makes no further call *)
(* to the Update Provider that succeeds, the failing call is its last);    *)
(* and the name stays due, so that its next cycle that reads the state     *)
(* runs again from the v4 pass when the configuration has a v4 block.      *)
(***************************************************************************)
PartialUpdate ==
    PartialThenFailed =>
        /\ outcome = "failed"
        /\ NothingPersisted
        /\ NotUndone
        /\ CycleEntry \in failed_due
        /\ DueAtAnyClock(CycleEntry)

C30_PartialUpdateThenFailure == []PartialUpdate /\ [][RerunsFromV4]_vars

C30_Witness ==
    /\ PartialThenFailed
    /\ pc = "idle"
    /\ CycleEntry \in failed_due
    /\ IsState(stateFile[CycleEntry])
    /\ \E i \in UpdateCalls(TRUE) : calls[i].res = "err"

(***************************************************************************)
(* The vocabulary of the unreadable-state claim: the cycle that has just   *)
(* ended read a state file that exists and does not parse.                 *)
(***************************************************************************)
ReadUnparsable ==
    /\ CycleOver
    /\ PriorFile = Unreadable
    /\ \E i \in DOMAIN calls : calls[i].op = "read_state"
FailsAtReadState ==
    /\ outcome = "failed"
    /\ calls[Len(calls)].op = "read_state"
    /\ calls[Len(calls)].res = "err"
    /\ NoProviderCall
    /\ stateFile = before
NeverDue ==
    \A e \in Entries :
        stateFile[e] = Unreadable =>
            \A interval \in Intervals :
                ~read_state(stateFile[e],
                            [name |-> ConfiguredName(e), renew_interval |-> interval]).ok
NotRewritten ==
    \A e \in Entries : stateFile[e] = Unreadable => stateFile'[e] = Unreadable
FailsTheSameWay ==
    (pc = "read_state" /\ pc' # "read_state" /\ stateFile[child] = Unreadable) =>
        /\ pc' = "loop"
        /\ outcome' = "failed"
        /\ stateFile' = stateFile
        /\ calls'[Len(calls')] = Call("read_state", FALSE, << >>, "err")

(***************************************************************************)
(* C31: when a state file exists but cannot be parsed as a NameState, the  *)
(* cycle fails at read_state, before any provider is invoked, and no file  *)
(* is rewritten; the program never replaces such a file, read_state        *)
(* returns an error for it at every clock and interval, and every cycle    *)
(* that reads it fails in the same way.                                    *)
(***************************************************************************)
UnreadableState ==
    /\ ReadUnparsable => FailsAtReadState
    /\ NeverDue

C31_UnreadableStateFile ==
    []UnreadableState /\ [][NotRewritten]_vars /\ [][FailsTheSameWay]_vars

C31_Witness ==
    /\ ReadUnparsable
    /\ CycleEntry = 1
    /\ now > 0
    /\ stateFile[1] = Unreadable
    /\ outcome = "failed"

(***************************************************************************)
(* The cycle with the resolver under its providers.  The Dns and Dot Query *)
(* Providers call query (query.rs 205-236), which builds a client, asks    *)
(* for the A or AAAA records of the name over the candidates of the pass's *)
(* family (Some(is_v6), line 220) and collects the addresses of the        *)
(* answer; the SslipIo Address Provider asks for TXT records in the same   *)
(* way (ip.rs 66-74) and takes the first that parses.  Whether the         *)
(* configured name parses as a domain name, what the host resolves to and  *)
(* what a server answers are inputs.  The other providers answer as in the *)
(* orchestrator (Query, Address); ResolvedEntries are the entries whose    *)
(* configuration may name a Dns, Dot or SslipIo provider, MaxHostAddrs the *)
(* number of addresses their name server hosts resolve to.                 *)
(***************************************************************************)
ResolvedEntries == {1}

ProviderNew ==
    /\ child \in ResolvedEntries
    /\ ProviderClient
    /\ IF Unwrap(caller').variant = "SslipIo" THEN pc = "address" ELSE pc = "query"

MaxHostAddrs == 1

ProviderQuery ==
    /\ do_query
    /\ Unwrap(request').is_via_v6 = Some(is_v6)
    /\ (IsSome(socket_addrs') => Len(Unwrap(socket_addrs')) <= MaxHostAddrs)

Situation ==
    IF socket_addrs = None THEN "unresolved"
    ELSE IF FilterAddrs(Unwrap(socket_addrs), Unwrap(request).is_via_v6) = << >>
        THEN "no_candidate"
    ELSE "candidates"

ClientDropped ==
    /\ dns_pc' = "new"
    /\ caller' = None
    /\ client' = None
    /\ flags' = None
    /\ request' = None
    /\ socket_addrs' = None
    /\ addrs' = << >>
    /\ has_tried' = FALSE
    /\ attempts' = << >>
    /\ dns_result' = None

(***************************************************************************)
(* query.rs 221-235: the addresses of the answer records; an empty answer  *)
(* gives an empty list.                                                    *)
(***************************************************************************)
AnswerIpsAny(response) == SUBSET IpAddrs

AnswerIps(response) ==
    IF response.answers = {} THEN {{}} ELSE SUBSET IpAddrs \ {{}}

QueryReturns ==
    /\ pc = "query"
    /\ dns_pc = "done"
    /\ LET r == Unwrap(dns_result)
           arg == <<Unwrap(name), Unwrap(caller).variant, Situation,
                    Name_from_str(Unwrap(request).name).ok>>
       IN  IF ~r.ok
           THEN /\ calls' = Append(calls, Call("query", is_v6, arg, "err"))
                /\ Bail
           ELSE /\ calls' = Append(calls, Call("query", is_v6, arg, "ok"))
                /\ \E published \in AnswerIps(r.v) : ips' = published
                /\ pc' = "address"
                /\ UNCHANGED <<stateFile, child, outcome, failed_due, name_conf, name,
                               name_state, v4_name_providers_conf, v6_name_providers_conf,
                               is_v6, ip, updated>>
    /\ ClientDropped
    /\ UNCHANGED <<now, exit_status, dry_run, before, read, compared>>
    /\ UNCHANGED <<cloudflare, single_call>>

(***************************************************************************)
(* ip.rs 74-111: the TXT records of the answer, an empty answer having     *)
(* none, go through filter_map and next().                                 *)
(***************************************************************************)
AnswerTxts(response) ==
    IF response.answers = {} THEN {<< >>}
    ELSE SeqsUpTo(MaxAnswers, AnswerRecords) \ {<< >>}

FetchReturns ==
    /\ pc = "address"
    /\ dns_pc = "done"
    /\ LET r == Unwrap(dns_result)
           arg == <<"SslipIo", Situation>>
       IN  \E x \in IF r.ok THEN {Ok(l) : l \in AnswerTxts(r.v)} ELSE {Err} :
             /\ calls' = Append(calls, Call("ip", is_v6, arg, ResOf(SslipIo_query(x))))
             /\ IF ~SslipIo_query(x).ok
                THEN Bail
                ELSE /\ ip' = Some(ip_to_string(SslipIo_query(x).v))
                     /\ pc' = "compare"
                     /\ UNCHANGED <<stateFile, child, outcome, failed_due, name_conf, name,
                                    name_state, v4_name_providers_conf,
                                    v6_name_providers_conf, is_v6, ips, updated>>
    /\ ClientDropped
    /\ UNCHANGED <<now, exit_status, dry_run, before, read, compared>>
    /\ UNCHANGED <<cloudflare, single_call>>

OtherQuery == ResolverIdle /\ Query

OtherAddress == ResolverIdle /\ Address

NextResolved ==
    \/ TheInvocation
    \/ RunReturn
    \/ ReadConf
    \/ ReadState
    \/ ProviderNew
    \/ ProviderQuery
    \/ Attempt
    \/ LoopOver
    \/ QueryReturns
    \/ FetchReturns
    \/ OtherQuery
    \/ OtherAddress
    \/ Compare
    \/ InitUpdate
    \/ Update
    \/ Write

SpecResolved == InitSingleCall /\ [][NextResolved]_vars

(***************************************************************************)
(* The vocabulary of the empty-set claim, over the operations the cycle    *)
(* has logged: a Dns or Dot query, or an SslipIo fetch, whose name server  *)
(* host resolved to no address of the pass's family.                       *)
(***************************************************************************)
EmptyQuery(i) ==
    /\ calls[i].op = "query"
    /\ Len(calls[i].arg) = 4
    /\ calls[i].arg[2] \in {"Dns", "Dot"}
    /\ calls[i].arg[3] = "no_candidate"
NameParses(i) == calls[i].arg[4]
EmptyFetch(i) ==
    /\ calls[i].op = "ip"
    /\ calls[i].arg = <<"SslipIo", "no_candidate">>
PublishedEmpty(i) ==
    /\ (i = Len(calls) /\ pc = "address" => ips = {})
    /\ (IsSome(compared[calls[i].is_v6]) => Absent(calls[i].is_v6))
FetchFails(i) ==
    /\ calls[i].res = "err"
    /\ i = Len(calls)
    /\ CycleOver
    /\ outcome = "failed"
    /\ ~Made("init_update", calls[i].is_v6)
    /\ ~Made("update", calls[i].is_v6)

(***************************************************************************)
(* C32 as stated: a Dns or Dot query without a candidate of the renewed    *)
(* family succeeds with an empty published set, and the Update Provider is *)
(* invoked in that pass; an SslipIo fetch without a candidate fails.       *)
(***************************************************************************)
C32_EmptySetUpdates ==
    \A i \in DOMAIN calls :
        /\ EmptyQuery(i) =>
               /\ calls[i].res = "ok"
               /\ PublishedEmpty(i)
               /\ (PassOver(calls[i].is_v6) => Made("update", calls[i].is_v6))
        /\ EmptyFetch(i) => FetchFails(i)

(***************************************************************************)
(* C32, amended. Empty published set triggers an update: a Dns or Dot      *)
(* query without a candidate of the renewed family succeeds exactly when   *)
(* the name parses as a domain name, and then with an empty published set; *)
(* the address the Address Provider then returns is absent from it, so the *)
(* pass goes on to build the Update Provider, and invokes it when it was   *)
(* built.  An SslipIo fetch without a candidate fails and ends the cycle.  *)
(***************************************************************************)
C32_EmptySetUpdatesWhenBuilt ==
    \A i \in DOMAIN calls :
        /\ EmptyQuery(i) =>
               /\ (calls[i].res = "ok" <=> NameParses(i))
               /\ (calls[i].res = "ok" =>
                      /\ PublishedEmpty(i)
                      /\ (PassOver(calls[i].is_v6) /\ MadeOk("ip", calls[i].is_v6)
                            => Made("init_update", calls[i].is_v6))
                      /\ (PassOver(calls[i].is_v6) /\ MadeOk("init_update", calls[i].is_v6)
                            => Made("update", calls[i].is_v6)))
        /\ EmptyFetch(i) => FetchFails(i)

C32_Witness ==
    /\ CycleOver
    /\ \E i \in DOMAIN calls :
         /\ EmptyQuery(i)
         /\ ~calls[i].is_v6
         /\ calls[i].arg[2] = "Dot"
    /\ ChangedBy(FALSE)
    /\ \E i \in DOMAIN calls : EmptyFetch(i) /\ calls[i].is_v6

(***************************************************************************)
(* The vocabulary of the no-usable-family claim.  A due cycle in which     *)
(* neither family has an effective block goes from read_state to the       *)
(* write: while it runs both blocks are None, and once it is over its log  *)
(* holds the write right after read_state.                                 *)
(***************************************************************************)
NoFamilyAtWrite ==
    /\ pc = "write"
    /\ v4_name_providers_conf = None
    /\ v6_name_providers_conf = None
NoFamilyCycle ==
    /\ CycleOver
    /\ Len(calls) = 4
    /\ calls[3] = Call("read_state", FALSE, << >>, "ok")
    /\ calls[4].op = "write"
PersistedFresh ==
    /\ stateFile[CycleEntry] = FileOf(FreshState)
    /\ stateFile[CycleEntry].state.next = Unwrap(read).at + Unwrap(read).interval
    /\ outcome = "skipped"
NotDueBeforeDeadline ==
    now < FreshState.next =>
        \A interval \in Intervals :
            read_state(stateFile[CycleEntry],
                       [name |-> ConfiguredName(CycleEntry),
                        renew_interval |-> interval]) = Ok(None)
StraightToWrite ==
    (/\ pc = "read_state"
     /\ pc' \notin {"read_state", "loop"}
     /\ EffectiveV4(Unwrap(name_conf)) = None
     /\ EffectiveV6(Unwrap(name_conf)) = None) =>
        /\ pc' = "write"
        /\ v4_name_providers_conf' = None
        /\ v6_name_providers_conf' = None
        /\ name_state' = Some(NameState_new(ConfiguredName(child),
                                            now + Unwrap(name_conf).renew_interval))

(***************************************************************************)
(* C33: a due name for which neither family has an enabled effective block *)
(* invokes no Query, Address or Update Provider: its cycle goes from       *)
(* read_state straight to the write, which persists the NameState with the *)
(* fresh next (the clock of read_state plus the interval) and is reported  *)
(* as not renewed; while the clock is before that next, read_state finds   *)
(* the name not due.  (A write that fails is an error of the cycle and     *)
(* leaves the files as they were.)                                         *)
(***************************************************************************)
NoUsableFamily ==
    /\ NoFamilyAtWrite => NoProviderCall /\ Len(calls) = 3 /\ ~updated
    /\ NoFamilyCycle =>
           /\ NoProviderCall
           /\ IF calls[4].res = "ok"
              THEN PersistedFresh /\ NotDueBeforeDeadline
              ELSE outcome = "failed" /\ stateFile = before

C33_NoUsableFamily == []NoUsableFamily /\ [][StraightToWrite]_vars

C33_Witness ==
    /\ NoFamilyCycle
    /\ calls[4].res = "ok"
    /\ CycleEntry = 1
    /\ PriorFile = NoFile
    /\ Unwrap(read).interval > 0
    /\ now < FreshState.next

====
